---- MODULE Spec2Model ----
(***************************************************************************)
(* Model of the nginx-love API core: DomainsService (the Reconciler:       *)
(* createDomain, updateDomain, deleteDomain, toggleSSL) and SSLService      *)
(* (issueAutoCertificate, deleteCertificate).  Each handler is split at    *)
(* its await points; a call is a record in `call`, its position is         *)
(* call[p].pc.                                                             *)
(***************************************************************************)
EXTENDS Integers, Sequences, FiniteSets, TLC

VARIABLES sites, certs, artifacts, enabled, nextId, call, activated, ncalls,
          now, loggerUp, probe, scheduler

vars == <<sites, certs, artifacts, enabled, nextId, call, activated, ncalls,
          now, loggerUp, probe, scheduler>>

\* what the handlers of the Reconciler leave alone: the clock (minutes), the
\* availability of the activity log store, and the argument/result pair of a pure
\* function under evaluation, the timer of the renewal scheduler
ambient == <<now, loggerUp, probe, scheduler>>

(***************************************************************************)
(* Bounds of the model.                                                    *)
(***************************************************************************)
MaxSites == 1
MaxCalls == 3
MaxUpstreams == 1

Procs == {1, 2}
SiteIds == 1..MaxSites
Names == {"a.test", "b.test"}
Ports == {80, 8080}
Algorithms == {"round_robin", "least_conn"}
Emails == {"", "bad", "ok@x.io"}

(***************************************************************************)
(* Data: Site and Certificate aggregates, optional values.                 *)
(***************************************************************************)
None == [set |-> FALSE]
Some(x) == [set |-> TRUE, v |-> x]
Merge(cur, opt) == IF opt.set THEN opt.v ELSE cur

NoProbe == [fn |-> "none"]

\* SSLSchedulerService before start(): intervalId is null (0), no interval of the
\* runtime is live; nextTimer is the handle the next setInterval returns, fired
\* counts the runs of the interval callback
NoScheduler == [intervalId |-> 0, timers |-> {}, nextTimer |-> 1, fired |-> 0]

NoSite == [present |-> FALSE]
NoCert == [present |-> FALSE]
NoLB == [present |-> FALSE]
NoArtifact == [present |-> FALSE]
\* sslExpiry: null or a date (days from the epoch of the model)
NoDate == None

Statuses == {"pending", "active", "error"}

UpstreamLists == UNION {[1..n -> Ports] : n \in 0..MaxUpstreams}

LoadBalancers == {[present |-> TRUE, algorithm |-> a] : a \in Algorithms}

\* DomainWithRelations: the Site row together with its sslCertificate relation.
WithRelations(id) == [site |-> sites[id], cert |-> certs[id]]

NoDomain == [site |-> NoSite, cert |-> NoCert]

\* CreateDomainInput
CreateInputs ==
    [name : Names, modsecEnabled : BOOLEAN, upstreams : UpstreamLists,
     loadBalancer : {NoLB} \cup LoadBalancers,
     autoCreateSSL : BOOLEAN, sslEmail : Emails]

\* UpdateDomainInput: every field optional
NoPatch ==
    [name |-> None, status |-> None, modsecEnabled |-> None, upstreams |-> None,
     loadBalancer |-> None, sslEnabled |-> None, sslExpiry |-> None]

UpdateInputs ==
    [name : {None} \cup {Some(n) : n \in Names},
     status : {None} \cup {Some(s) : s \in Statuses},
     modsecEnabled : {None} \cup {Some(b) : b \in BOOLEAN},
     upstreams : {None} \cup {Some(u) : u \in UpstreamLists},
     loadBalancer : {None} \cup {Some(l) : l \in LoadBalancers},
     sslEnabled : {None}, sslExpiry : {None}]

(***************************************************************************)
(* Time and certificate status (ssl.service.ts, ssl.types.ts).             *)
(***************************************************************************)
\* the clock counts minutes (a month of milliseconds is beyond the integers of the
\* model checker); 1000 * 60 * 60 * 24 milliseconds are 24 * 60 minutes
Day == 24 * 60

\* SSL_CONSTANTS.EXPIRING_THRESHOLD_DAYS
EXPIRING_THRESHOLD_DAYS == 30

\* SSL_CONSTANTS.AUTO_RENEWABLE_ISSUERS, SSL_CONSTANTS.MANUAL_ISSUER
AUTO_RENEWABLE_ISSUERS == {"Let's Encrypt", "ZeroSSL"}

MANUAL_ISSUER == "Manual Upload"

\* mutant: the operands of the subtraction swapped
DaysUntilExpirySwapped(validTo, t) == (t - validTo) \div Day

\* Math.floor((validTo.getTime() - t.getTime()) / (1000 * 60 * 60 * 24))
DaysUntilExpiry(validTo, t) == (validTo - t) \div Day

\* mutant: Math.ceil in the place of Math.floor
StatusAtCeil(validTo, t) ==
    LET daysUntilExpiry == -((t - validTo) \div Day)
    IN  IF daysUntilExpiry < 0 THEN "expired"
        ELSE IF daysUntilExpiry < EXPIRING_THRESHOLD_DAYS THEN "expiring"
        ELSE "valid"

\* SSLService.calculateStatus, with the clock reading as a parameter
StatusAt(validTo, t) ==
    LET daysUntilExpiry == DaysUntilExpiry(validTo, t)
    IN  IF daysUntilExpiry < 0 THEN "expired"
        ELSE IF daysUntilExpiry < EXPIRING_THRESHOLD_DAYS THEN "expiring"
        ELSE "valid"

\* SSLService.calculateStatus: const now = new Date()
calculateStatus(validTo) == StatusAt(validTo, now)

(***************************************************************************)
(* Host names as strings of characters; matchesHostname (ssl.service.ts).  *)
(***************************************************************************)
\* String.prototype.toLowerCase on the letters that occur in the model
LowerChar(ch) == IF ch = "A" THEN "a" ELSE IF ch = "B" THEN "b" ELSE ch

toLowerCase(s) == [i \in 1..Len(s) |-> LowerChar(s[i])]

startsWith(s, prefix) ==
    Len(s) >= Len(prefix) /\ SubSeq(s, 1, Len(prefix)) = prefix

endsWith(s, suffix) ==
    Len(s) >= Len(suffix) /\ SubSeq(s, Len(s) - Len(suffix) + 1, Len(s)) = suffix

\* s.slice(from), from counted from 0
slice(s, from) == SubSeq(s, from + 1, Len(s))

\* s.split('.').length
PartsCount(s) == Cardinality({i \in 1..Len(s) : s[i] = "."}) + 1

\* s.split('.').slice(1).join('.'): what follows the first '.'
ParentDomain(s) ==
    LET dots == {i \in 1..Len(s) : s[i] = "."}
    IN  IF dots = {} THEN <<>>
        ELSE slice(s, CHOOSE i \in dots : \A j \in dots : i <= j)

\* mutant: the wildcard rule without the look at what precedes the base
matchesHostnameSuffixOnly(certName, domainName) ==
    LET cert == toLowerCase(certName)
        domain == toLowerCase(domainName)
        baseDomain == slice(cert, 2)
    IN  IF cert = domain THEN TRUE
        ELSE IF startsWith(cert, <<"*", ".">>) /\ endsWith(domain, baseDomain)
        THEN TRUE
        ELSE /\ PartsCount(domain) >= 3
             /\ cert = <<"*", ".">> \o ParentDomain(domain)

\* matchesHostname(certName, domainName), lines 329-364
matchesHostname(certName, domainName) ==
    LET cert == toLowerCase(certName)
        domain == toLowerCase(domainName)
        baseDomain == slice(cert, 2)
        beforeBase == SubSeq(domain, 1, Len(domain) - Len(baseDomain))
    IN  IF cert = domain THEN TRUE
        ELSE IF startsWith(cert, <<"*", ".">>) /\ endsWith(domain, baseDomain)
        THEN beforeBase = <<>> \/ endsWith(beforeBase, <<".">>)
        ELSE /\ PartsCount(domain) >= 3
             /\ cert = <<"*", ".">> \o ParentDomain(domain)

\* mutant: the suffix rule accepts one label in front of the base only
MatchRuleOneLabel(certName, domainName) ==
    LET cert == toLowerCase(certName)
        domain == toLowerCase(domainName)
        baseDomain == slice(cert, 2)
        beforeBase == SubSeq(domain, 1, Len(domain) - Len(baseDomain))
    IN  IF cert = domain THEN "exact"
        ELSE IF startsWith(cert, <<"*", ".">>) /\ endsWith(domain, baseDomain)
                  /\ PartsCount(beforeBase) <= 2
        THEN IF beforeBase = <<>> \/ endsWith(beforeBase, <<".">>)
             THEN "suffix" ELSE "none"
        ELSE IF /\ PartsCount(domain) >= 3
                /\ cert = <<"*", ".">> \o ParentDomain(domain)
        THEN "multi" ELSE "none"

\* the return statement of matchesHostname that decides: line 334 (exact), line
\* 346 (the wildcard rule on the suffix), line 359 (the wildcard of the parent
\* domain), line 363 (none)
MatchRule(certName, domainName) ==
    LET cert == toLowerCase(certName)
        domain == toLowerCase(domainName)
        baseDomain == slice(cert, 2)
        beforeBase == SubSeq(domain, 1, Len(domain) - Len(baseDomain))
    IN  IF cert = domain THEN "exact"
        ELSE IF startsWith(cert, <<"*", ".">>) /\ endsWith(domain, baseDomain)
        THEN IF beforeBase = <<>> \/ endsWith(beforeBase, <<".">>)
             THEN "suffix" ELSE "none"
        ELSE IF /\ PartsCount(domain) >= 3
                /\ cert = <<"*", ".">> \o ParentDomain(domain)
        THEN "multi" ELSE "none"

\* the characters of the Site names of the model
HostChars(n) ==
    IF n = "a.test" THEN <<"a", ".", "t", "e", "s", "t">>
    ELSE <<"b", ".", "t", "e", "s", "t">>

(***************************************************************************)
(* Repository (domains.repository, ssl.repository).                        *)
(***************************************************************************)
FindByName(n) == {i \in SiteIds : sites[i].present /\ sites[i].name = n}

\* domainsRepository.create: a new row, pending, without SSL
NewSite(input) ==
    [present |-> TRUE, name |-> input.name, status |-> "pending",
     sslEnabled |-> FALSE, sslExpiry |-> NoDate,
     modsecEnabled |-> input.modsecEnabled, upstreams |-> input.upstreams,
     loadBalancer |-> input.loadBalancer]

\* domainsRepository.update: fields that are not provided keep their value
Patched(s, patch) ==
    [present |-> TRUE,
     name |-> Merge(s.name, patch.name),
     status |-> Merge(s.status, patch.status),
     sslEnabled |-> Merge(s.sslEnabled, patch.sslEnabled),
     sslExpiry |-> Merge(s.sslExpiry, patch.sslExpiry),
     modsecEnabled |-> Merge(s.modsecEnabled, patch.modsecEnabled),
     upstreams |-> Merge(s.upstreams, patch.upstreams),
     loadBalancer |-> Merge(s.loadBalancer, patch.loadBalancer)]

\* the row is there and the new name, if any, is not taken by another row
CanUpdate(id, patch) ==
    /\ sites[id].present
    /\ patch.name.set => FindByName(patch.name.v) \subseteq {id}

(***************************************************************************)
(* ConfigGenerator (nginx-config.service) and the artifact on disk.        *)
(***************************************************************************)
\* the rendering: a pure function of the Site and its Certificate
Render(dom) ==
    [present |-> TRUE, name |-> dom.site.name,
     modsecEnabled |-> dom.site.modsecEnabled,
     upstreams |-> dom.site.upstreams,
     loadBalancer |-> dom.site.loadBalancer,
     ssl |-> dom.site.sslEnabled /\ dom.cert.present]

\* validation inside generateConfig: a server block needs an upstream
ValidConfig(dom) == dom.site.upstreams # <<>>

(***************************************************************************)
(* Calls.  A call record holds the handler's parameters and locals, the    *)
(* error it threw (err, "" when it returned), the collaborator calls it    *)
(* made so far (trace), the audit entries it wrote (audit, the success     *)
(* flag of each) and the repository and disk as they were when it started  *)
(* (pre).                                                                  *)
(***************************************************************************)
NoInput ==
    [name |-> "", modsecEnabled |-> FALSE, upstreams |-> <<>>,
     loadBalancer |-> NoLB, autoCreateSSL |-> FALSE, sslEmail |-> ""]

World == [sites |-> sites, certs |-> certs, artifacts |-> artifacts, enabled |-> enabled]

EmptyWorld ==
    [sites |-> [i \in SiteIds |-> NoSite], certs |-> [i \in SiteIds |-> NoCert],
     artifacts |-> [n \in Names |-> NoArtifact], enabled |-> {}]

Fresh(op, w) ==
    [op |-> op, pc |-> "start", id |-> 0, input |-> NoInput, flag |-> FALSE,
     snap |-> NoPatch, dom |-> NoDomain, ret |-> NoDomain, tmp |-> NoDomain,
     cert |-> NoCert, out |-> NoCert, due |-> {}, err |-> "", trace |-> <<>>,
     audit |-> <<>>, pre |-> w, at |-> now]

Idle == [Fresh("idle", EmptyWorld) EXCEPT !.pc = "idle"]

At(p, label) == call[p].pc = label

Set(p, c) == call' = [call EXCEPT ![p] = c]

\* a handler may be entered when the process runs no call
CanStart(p) == call[p].pc \in {"idle", "done"} /\ ncalls < MaxCalls

Returned(c) == [c EXCEPT !.pc = "done"]

Thrown(c, e) == [c EXCEPT !.pc = "done", !.err = e]

Did(c, event) == [c EXCEPT !.trace = Append(@, event)]

Count(t, event) == Cardinality({i \in 1..Len(t) : t[i] = event})

\* DomainsService.logActivity: one audit row; a failure of the store is swallowed
\* (lines 437-450), the row is then missing
Logged(c, success) ==
    IF loggerUp
    THEN [c EXCEPT !.audit = Append(@, success), !.trace = Append(@, "log")]
    ELSE Did(c, "log:fail")

Init ==
    /\ sites = [i \in SiteIds |-> NoSite]
    /\ certs = [i \in SiteIds |-> NoCert]
    /\ artifacts = [n \in Names |-> NoArtifact]
    /\ enabled = {}
    /\ nextId = 1
    /\ now = 0
    /\ loggerUp = TRUE
    /\ probe = NoProbe
    /\ scheduler = NoScheduler
    /\ call = [p \in Procs |-> Idle]
    /\ activated = {}
    /\ ncalls = 0

(***************************************************************************)
(* DomainsService.createDomain                                             *)
(***************************************************************************)
\* mutant: the existence check of lines 47-50 is left out
StartCreateUnchecked(p, inputs) ==
    /\ CanStart(p)
    /\ \E input \in inputs :
         Set(p, [Did([Fresh("create", World) EXCEPT !.input = input], "findByName")
                   EXCEPT !.pc = "c_create"])
    /\ ncalls' = ncalls + 1
    /\ UNCHANGED <<sites, certs, artifacts, enabled, nextId, activated, ambient>>

\* lines 46-50: findByName, 'Domain already exists'
StartCreate(p, inputs) ==
    /\ CanStart(p)
    /\ \E input \in inputs :
         LET c == Did([Fresh("create", World) EXCEPT !.input = input], "findByName")
         IN  IF FindByName(input.name) # {}
             THEN Set(p, Thrown(c, "AlreadyExists"))
             ELSE nextId <= MaxSites /\ Set(p, [c EXCEPT !.pc = "c_create"])
    /\ ncalls' = ncalls + 1
    /\ UNCHANGED <<sites, certs, artifacts, enabled, nextId, activated, ambient>>

\* line 53: domainsRepository.create (outside the try: a throw is not rolled back)
CreateRecord(p) ==
    /\ At(p, "c_create")
    /\ LET c == Did(call[p], "create")
           s == NewSite(c.input)
       IN  IF FindByName(c.input.name) # {} \/ nextId > MaxSites
           THEN /\ Set(p, Thrown(c, "Conflict"))
                /\ UNCHANGED <<sites, nextId>>
           ELSE /\ sites' = [sites EXCEPT ![nextId] = s]
                /\ nextId' = nextId + 1
                /\ Set(p, [c EXCEPT !.pc = "c_generate", !.id = nextId,
                                    !.dom = [site |-> s, cert |-> NoCert]])
    /\ UNCHANGED <<certs, artifacts, enabled, activated, ncalls, ambient>>

\* line 57: nginxConfigService.generateConfig(domain)
CreateGenerate(p) ==
    /\ At(p, "c_generate")
    /\ LET c == Did(call[p], "generate")
       IN  IF ValidConfig(c.dom)
           THEN /\ artifacts' = [artifacts EXCEPT ![c.dom.site.name] = Render(c.dom)]
                /\ Set(p, [c EXCEPT !.pc = "c_status"])
           ELSE /\ Set(p, [c EXCEPT !.pc = "c_rollback", !.err = "InvalidConfig"])
                /\ UNCHANGED artifacts
    /\ UNCHANGED <<sites, certs, enabled, nextId, activated, ncalls, ambient>>

\* line 60: domainsRepository.updateStatus(domain.id, 'active')
CreateStatus(p) ==
    /\ At(p, "c_status")
    /\ LET c == Did(call[p], "updateStatus")
           s == [sites[c.id] EXCEPT !.status = "active"]
       IN  IF sites[c.id].present
           THEN /\ sites' = [sites EXCEPT ![c.id] = s]
                /\ Set(p, [c EXCEPT !.pc = "c_enable",
                                    !.ret = [site |-> s, cert |-> certs[c.id]]])
           ELSE /\ Set(p, [c EXCEPT !.pc = "c_rollback", !.err = "Conflict"])
                /\ UNCHANGED sites
    /\ UNCHANGED <<certs, artifacts, enabled, nextId, activated, ncalls, ambient>>

\* line 63: nginxConfigService.enableConfig(domain.name)
CreateEnable(p) ==
    /\ At(p, "c_enable")
    /\ enabled' = enabled \cup {call[p].dom.site.name}
    /\ Set(p, [Did(call[p], "enable") EXCEPT !.pc = "c_reload"])
    /\ UNCHANGED <<sites, certs, artifacts, nextId, activated, ncalls, ambient>>

\* lines 66-67: nginxReloadService.reload() and the test of its result
CreateReload(p) ==
    /\ At(p, "c_reload")
    /\ \E ok \in BOOLEAN :
         IF ok
         THEN /\ activated' = activated \cup {call[p].id}
              /\ Set(p, [Did(call[p], "reload:ok") EXCEPT !.pc = "c_log"])
         ELSE /\ Set(p, [Did(call[p], "reload:fail") EXCEPT !.pc = "c_undo"])
              /\ UNCHANGED activated
    /\ UNCHANGED <<sites, certs, artifacts, enabled, nextId, ncalls, ambient>>

\* nginxConfigService.deleteConfig(name): the file and its symlink
ConfigDeleted(n) ==
    /\ artifacts' = [artifacts EXCEPT ![n] = NoArtifact]
    /\ enabled' = enabled \ {n}

\* domainsRepository.delete(id): the row and, by cascade, its certificate
RowDeleted(id) ==
    /\ sites' = [sites EXCEPT ![id] = NoSite]
    /\ certs' = [certs EXCEPT ![id] = NoCert]

\* mutant: the failed reload throws without the rollback of lines 69-70, and the
\* catch block is then entered with the row still stored
CreateUndoKeepsRow(p) ==
    /\ At(p, "c_undo")
    /\ Set(p, [call[p] EXCEPT !.pc = "c_rollback", !.err = "ReloadFailed"])
    /\ UNCHANGED <<sites, certs, artifacts, enabled, nextId, activated, ncalls, ambient>>

\* lines 68-71: rollback after the failed reload, then throw
CreateUndo(p) ==
    /\ At(p, "c_undo")
    /\ ConfigDeleted(call[p].dom.site.name)
    /\ RowDeleted(call[p].id)
    /\ Set(p, [Did(Did(call[p], "deleteConfig"), "delete")
                 EXCEPT !.pc = "c_rollback", !.err = "ReloadFailed"])
    /\ UNCHANGED <<nextId, activated, ncalls, ambient>>

\* mutant: the catch block deletes the config but not the row
CreateRollbackKeepsRow(p) ==
    /\ At(p, "c_rollback")
    /\ ConfigDeleted(call[p].dom.site.name)
    /\ Set(p, Returned(Did(call[p], "deleteConfig")))
    /\ UNCHANGED <<sites, certs, nextId, activated, ncalls, ambient>>

\* lines 157-173: the catch block deletes config and row (errors swallowed), rethrows
CreateRollback(p) ==
    /\ At(p, "c_rollback")
    /\ ConfigDeleted(call[p].dom.site.name)
    /\ RowDeleted(call[p].id)
    /\ Set(p, Returned(Did(Did(call[p], "deleteConfig"), "delete")))
    /\ UNCHANGED <<nextId, activated, ncalls, ambient>>

\* lines 75-90: success audit entry, then the auto-SSL decision
CreateLog(p) ==
    /\ At(p, "c_log")
    /\ LET c == Logged(call[p], TRUE)
       IN  IF c.input.autoCreateSSL /\ c.input.sslEmail # ""
           THEN Set(p, [c EXCEPT !.pc = "i_check"])
           ELSE Set(p, Returned(c))
    /\ UNCHANGED <<sites, certs, artifacts, enabled, nextId, activated, ncalls, ambient>>

(***************************************************************************)
(* SSLService.issueAutoCertificate: called by createDomain (auto-SSL) and  *)
(* on its own (op = "issue").                                              *)
(***************************************************************************)
\* the certificate acme.sh returns, as parsed and stored (lines 221-235)
IssuedCert ==
    [present |-> TRUE, validTo |-> now + 90 * Day, notAfter |-> now + 90 * Day,
     autoRenew |-> TRUE, status |-> "valid", issuer |-> "ZeroSSL"]

\* issueAutoCertificate returned: back in createDomain (line 103) or done
IssueReturned(c) ==
    IF c.op = "create" THEN [c EXCEPT !.pc = "c_sslupdate"] ELSE Returned(c)

\* issueAutoCertificate threw: createDomain's catch (line 140) or the caller
IssueThrown(c) ==
    IF c.op = "create" THEN [c EXCEPT !.pc = "c_sslfail"] ELSE Thrown(c, "IssueFailed")

\* SSLService.logActivity (lines 705-722) has no try/catch: a failure of the store
\* leaves the handler as an exception
LogThrown(c) ==
    IF c.op = "create" THEN [c EXCEPT !.pc = "c_sslfail"] ELSE Thrown(c, "LogFailed")

StartIssue(p) ==
    /\ CanStart(p)
    /\ \E id \in SiteIds, email \in Emails :
         Set(p, [Fresh("issue", World) EXCEPT !.pc = "i_check", !.id = id,
                                             !.input.sslEmail = email])
    /\ ncalls' = ncalls + 1
    /\ UNCHANGED <<sites, certs, artifacts, enabled, nextId, activated, ambient>>

\* lines 187-202: secureEmail, the domain lookup and the existing-certificate
\* check; each throws before the try block, so nothing is logged
IssueCheck(p) ==
    /\ At(p, "i_check")
    /\ LET c == Did(call[p], "findByDomainId")
       IN  IF \/ c.input.sslEmail = "bad"
              \/ ~sites[c.id].present
              \/ certs[c.id].present
           THEN Set(p, IssueThrown(c))
           ELSE Set(p, [c EXCEPT !.pc = "i_acme"])
    /\ UNCHANGED <<sites, certs, artifacts, enabled, nextId, activated, ncalls, ambient>>

\* lines 208-216: acmeService.issueCertificate and parseCertificate
IssueAcme(p) ==
    /\ At(p, "i_acme")
    /\ \E ok \in BOOLEAN :
         IF ok
         THEN Set(p, [Did(call[p], "issue:ok") EXCEPT !.pc = "i_store", !.cert = IssuedCert])
         ELSE Set(p, [Did(call[p], "issue:fail") EXCEPT !.pc = "i_logfail"])
    /\ UNCHANGED <<sites, certs, artifacts, enabled, nextId, activated, ncalls, ambient>>

\* line 243: sslRepository.create (one certificate per domain, the domain must exist)
IssueStore(p) ==
    /\ At(p, "i_store")
    /\ LET c == Did(call[p], "createCert")
       IN  IF sites[c.id].present /\ ~certs[c.id].present
           THEN /\ certs' = [certs EXCEPT ![c.id] = c.cert]
                /\ Set(p, [c EXCEPT !.pc = "i_expiry"])
           ELSE /\ Set(p, [c EXCEPT !.pc = "i_logfail"])
                /\ UNCHANGED certs
    /\ UNCHANGED <<sites, artifacts, enabled, nextId, activated, ncalls, ambient>>

\* line 246: sslRepository.updateDomainSSLExpiry (SSL is not enabled here)
IssueExpiry(p) ==
    /\ At(p, "i_expiry")
    /\ LET c == Did(call[p], "updateExpiry")
       IN  IF sites[c.id].present
           THEN /\ sites' = [sites EXCEPT ![c.id].sslExpiry = Some(c.cert.validTo)]
                /\ Set(p, [c EXCEPT !.pc = "i_log"])
           ELSE /\ Set(p, [c EXCEPT !.pc = "i_logfail"])
                /\ UNCHANGED sites
    /\ UNCHANGED <<certs, artifacts, enabled, nextId, activated, ncalls, ambient>>

\* lines 249-259: success audit entry, return the certificate
IssueLog(p) ==
    /\ At(p, "i_log")
    /\ IF loggerUp
       THEN Set(p, IssueReturned(Logged(call[p], TRUE)))
       ELSE Set(p, [Did(call[p], "log:fail") EXCEPT !.pc = "i_logfail"])
    /\ UNCHANGED <<sites, certs, artifacts, enabled, nextId, activated, ncalls, ambient>>

\* lines 260-273: failure audit entry, rethrow
IssueLogFail(p) ==
    /\ At(p, "i_logfail")
    /\ IF loggerUp
       THEN Set(p, IssueThrown(Logged(call[p], FALSE)))
       ELSE Set(p, LogThrown(Did(call[p], "log:fail")))
    /\ UNCHANGED <<sites, certs, artifacts, enabled, nextId, activated, ncalls, ambient>>

(***************************************************************************)
(* createDomain, auto-SSL follow-up (lines 103-153)                        *)
(***************************************************************************)
\* line 110: domainsRepository.update(id, {sslEnabled: true, sslExpiry})
CreateSslUpdate(p) ==
    /\ At(p, "c_sslupdate")
    /\ LET c == Did(call[p], "update")
           patch == [NoPatch EXCEPT !.sslEnabled = Some(TRUE),
                                    !.sslExpiry = Some(Some(c.cert.validTo))]
           s == Patched(sites[c.id], patch)
       IN  IF CanUpdate(c.id, patch)
           THEN /\ sites' = [sites EXCEPT ![c.id] = s]
                /\ Set(p, [c EXCEPT !.pc = "c_sslgen",
                                    !.tmp = [site |-> s, cert |-> certs[c.id]]])
           ELSE /\ Set(p, [c EXCEPT !.pc = "c_ssllog"])
                /\ UNCHANGED sites
    /\ UNCHANGED <<certs, artifacts, enabled, nextId, activated, ncalls, ambient>>

\* line 120: generateConfig(enabledDomain); a throw lands in the catch of line 127
CreateSslGenerate(p) ==
    /\ At(p, "c_sslgen")
    /\ LET c == Did(call[p], "generate")
       IN  IF ValidConfig(c.tmp)
           THEN /\ artifacts' = [artifacts EXCEPT ![c.tmp.site.name] = Render(c.tmp)]
                /\ Set(p, [c EXCEPT !.pc = "c_sslreload"])
           ELSE /\ Set(p, [c EXCEPT !.pc = "c_ssllog"])
                /\ UNCHANGED artifacts
    /\ UNCHANGED <<sites, certs, enabled, nextId, activated, ncalls, ambient>>

\* lines 121-125: reload(), its result is not looked at; finalDomain = enabledDomain
CreateSslReload(p) ==
    /\ At(p, "c_sslreload")
    /\ \E ok \in BOOLEAN :
         /\ activated' = IF ok THEN activated \cup {call[p].id} ELSE activated
         /\ Set(p, [Did(call[p], IF ok THEN "reload:ok" ELSE "reload:fail")
                      EXCEPT !.pc = "c_ssllog", !.ret = call[p].tmp])
    /\ UNCHANGED <<sites, certs, artifacts, enabled, nextId, ncalls, ambient>>

\* lines 132-139: 'Auto-created and enabled SSL certificate', success = true
CreateSslLog(p) ==
    /\ At(p, "c_ssllog")
    /\ Set(p, Returned(Logged(call[p], TRUE)))
    /\ UNCHANGED <<sites, certs, artifacts, enabled, nextId, activated, ncalls, ambient>>

\* mutant: the catch of line 140 logs and rethrows
CreateSslFailRethrows(p) ==
    /\ At(p, "c_sslfail")
    /\ Set(p, Thrown(Logged(call[p], FALSE), "IssueFailed"))
    /\ UNCHANGED <<sites, certs, artifacts, enabled, nextId, activated, ncalls, ambient>>

\* lines 140-153: 'Failed to auto-create SSL certificate', success = false
CreateSslFail(p) ==
    /\ At(p, "c_sslfail")
    /\ Set(p, Returned(Logged(call[p], FALSE)))
    /\ UNCHANGED <<sites, certs, artifacts, enabled, nextId, activated, ncalls, ambient>>

(***************************************************************************)
(* DomainsService.updateDomain                                             *)
(***************************************************************************)
\* lines 214-234: originalData; an absent load balancer is stored as undefined,
\* sslEnabled and sslExpiry are not part of the snapshot
OriginalData(s) ==
    [name |-> Some(s.name), status |-> Some(s.status),
     modsecEnabled |-> Some(s.modsecEnabled), upstreams |-> Some(s.upstreams),
     loadBalancer |-> IF s.loadBalancer.present THEN Some(s.loadBalancer) ELSE None,
     sslEnabled |-> None, sslExpiry |-> None]

\* lines 207-234: findById, 'Domain not found', the snapshot
StartUpdate(p) ==
    /\ CanStart(p)
    /\ \E id \in SiteIds :
         LET c == Did([Fresh("update", World) EXCEPT !.id = id], "findById")
         IN  IF ~sites[id].present
             THEN Set(p, Thrown(c, "NotFound"))
             ELSE Set(p, [c EXCEPT !.pc = "u_update", !.dom = WithRelations(id),
                                   !.snap = OriginalData(sites[id])])
    /\ ncalls' = ncalls + 1
    /\ UNCHANGED <<sites, certs, artifacts, enabled, nextId, activated, ambient>>

\* line 238: domainsRepository.update(id, input); the input is bound here, where
\* the handler first uses it
UpdatePersist(p, inputs) ==
    /\ At(p, "u_update")
    /\ \E input \in inputs :
         LET c == Did(call[p], "update")
         IN  IF CanUpdate(c.id, input)
             THEN /\ sites' = [sites EXCEPT ![c.id] = Patched(sites[c.id], input)]
                  /\ Set(p, [c EXCEPT !.pc = "u_read"])
             ELSE /\ Set(p, [c EXCEPT !.pc = "u_catch", !.err = "Conflict"])
                  /\ UNCHANGED sites
    /\ UNCHANGED <<certs, artifacts, enabled, nextId, activated, ncalls, ambient>>

\* lines 241-244: findById, 'Failed to fetch updated domain'
UpdateRead(p) ==
    /\ At(p, "u_read")
    /\ LET c == Did(call[p], "findById")
       IN  IF sites[c.id].present
           THEN Set(p, [c EXCEPT !.pc = "u_generate", !.ret = WithRelations(c.id)])
           ELSE Set(p, [c EXCEPT !.pc = "u_catch", !.err = "Conflict"])
    /\ UNCHANGED <<sites, certs, artifacts, enabled, nextId, activated, ncalls, ambient>>

\* line 247: generateConfig(updatedDomain)
UpdateGenerate(p) ==
    /\ At(p, "u_generate")
    /\ LET c == Did(call[p], "generate")
       IN  IF ValidConfig(c.ret)
           THEN /\ artifacts' = [artifacts EXCEPT ![c.ret.site.name] = Render(c.ret)]
                /\ Set(p, [c EXCEPT !.pc = "u_reload"])
           ELSE /\ Set(p, [c EXCEPT !.pc = "u_catch", !.err = "InvalidConfig"])
                /\ UNCHANGED artifacts
    /\ UNCHANGED <<sites, certs, enabled, nextId, activated, ncalls, ambient>>

\* lines 250-251: reload() and the test of its result
UpdateReload(p) ==
    /\ At(p, "u_reload")
    /\ \E ok \in BOOLEAN :
         IF ok
         THEN /\ activated' = activated \cup {call[p].id}
              /\ Set(p, [Did(call[p], "reload:ok") EXCEPT !.pc = "u_log"])
         ELSE /\ Set(p, [Did(call[p], "reload:fail") EXCEPT !.pc = "u_undo"])
              /\ UNCHANGED activated
    /\ UNCHANGED <<sites, certs, artifacts, enabled, nextId, ncalls, ambient>>

\* mutant: the rollback writes nothing back
RestoreNothing(c) == UNCHANGED <<sites, artifacts>>

\* mutant: the rollback writes the snapshot back only while the row is still the
\* one this call read after its own update
RestoreGuarded(c) ==
    IF CanUpdate(c.id, c.snap) /\ sites[c.id] = c.ret.site
    THEN LET s == Patched(sites[c.id], c.snap)
             restored == [site |-> s, cert |-> certs[c.id]]
         IN  /\ sites' = [sites EXCEPT ![c.id] = s]
             /\ IF ValidConfig(restored)
                THEN artifacts' = [artifacts EXCEPT ![s.name] = Render(restored)]
                ELSE UNCHANGED artifacts
    ELSE UNCHANGED <<sites, artifacts>>

\* lines 253-257 and 278-282: update(id, originalData), findById, and
\* generateConfig(restoredDomain) if the row was found
RestoreOriginal(c) ==
    IF CanUpdate(c.id, c.snap)
    THEN LET s == Patched(sites[c.id], c.snap)
             restored == [site |-> s, cert |-> certs[c.id]]
         IN  /\ sites' = [sites EXCEPT ![c.id] = s]
             /\ IF ValidConfig(restored)
                THEN artifacts' = [artifacts EXCEPT ![s.name] = Render(restored)]
                ELSE UNCHANGED artifacts
    ELSE UNCHANGED <<sites, artifacts>>

\* what the rollback block of lines 253-258 throws
UndoError(c) ==
    IF ~CanUpdate(c.id, c.snap) THEN "Conflict"
    ELSE IF ~ValidConfig([site |-> Patched(sites[c.id], c.snap), cert |-> certs[c.id]])
         THEN "InvalidConfig"
         ELSE "ReloadFailed"

Restoring(c) == Did(Did(Did(c, "restore"), "findById"), "generate")

\* lines 252-258: rollback after the failed reload, then throw
UpdateUndo(p) ==
    /\ At(p, "u_undo")
    /\ RestoreOriginal(call[p])
    /\ Set(p, [Restoring(call[p]) EXCEPT !.pc = "u_catch", !.err = UndoError(call[p])])
    /\ UNCHANGED <<certs, enabled, nextId, activated, ncalls, ambient>>

\* lines 274-293: the catch block restores again (errors swallowed) and rethrows
UpdateCatch(p) ==
    /\ At(p, "u_catch")
    /\ RestoreOriginal(call[p])
    /\ Set(p, Returned(Restoring(call[p])))
    /\ UNCHANGED <<certs, enabled, nextId, activated, ncalls, ambient>>

\* lines 262-273: success audit entry, return updatedDomain
UpdateLog(p) ==
    /\ At(p, "u_log")
    /\ Set(p, Returned(Logged(call[p], TRUE)))
    /\ UNCHANGED <<sites, certs, artifacts, enabled, nextId, activated, ncalls, ambient>>

(***************************************************************************)
(* DomainsService.deleteDomain                                             *)
(***************************************************************************)
\* lines 307-312
StartDelete(p) ==
    /\ CanStart(p)
    /\ \E id \in SiteIds :
         LET c == Did([Fresh("delete", World) EXCEPT !.id = id], "findById")
         IN  IF ~sites[id].present
             THEN Set(p, Thrown(c, "NotFound"))
             ELSE Set(p, [c EXCEPT !.pc = "d_config", !.dom = WithRelations(id)])
    /\ ncalls' = ncalls + 1
    /\ UNCHANGED <<sites, certs, artifacts, enabled, nextId, activated, ambient>>

\* line 315: deleteConfig(domainName)
DeleteConfig(p) ==
    /\ At(p, "d_config")
    /\ ConfigDeleted(call[p].dom.site.name)
    /\ Set(p, [Did(call[p], "deleteConfig") EXCEPT !.pc = "d_row"])
    /\ UNCHANGED <<sites, certs, nextId, activated, ncalls, ambient>>

\* line 318: domainsRepository.delete(id)
DeleteRow(p) ==
    /\ At(p, "d_row")
    /\ LET c == Did(call[p], "delete")
       IN  IF sites[c.id].present
           THEN /\ RowDeleted(c.id)
                /\ Set(p, [c EXCEPT !.pc = "d_reload"])
           ELSE /\ Set(p, Thrown(c, "Conflict"))
                /\ UNCHANGED <<sites, certs>>
    /\ UNCHANGED <<artifacts, enabled, nextId, activated, ncalls, ambient>>

\* mutant: a failed reload puts the row and the artifact back
DeleteReloadRollsBack(p) ==
    /\ At(p, "d_reload")
    /\ \E ok \in BOOLEAN :
         /\ Set(p, [Did(call[p], IF ok THEN "reload:ok" ELSE "reload:fail")
                      EXCEPT !.pc = "d_log"])
         /\ IF ok
            THEN UNCHANGED <<sites, artifacts>>
            ELSE /\ sites' = [sites EXCEPT ![call[p].id] = call[p].dom.site]
                 /\ artifacts' = [artifacts EXCEPT ![call[p].dom.site.name] =
                                                     Render(call[p].dom)]
    /\ UNCHANGED <<certs, enabled, nextId, activated, ncalls, ambient>>

\* line 321: autoReload(true), its result is not looked at
DeleteReload(p) ==
    /\ At(p, "d_reload")
    /\ \E ok \in BOOLEAN :
         Set(p, [Did(call[p], IF ok THEN "reload:ok" ELSE "reload:fail")
                   EXCEPT !.pc = "d_log"])
    /\ UNCHANGED <<sites, certs, artifacts, enabled, nextId, activated, ncalls, ambient>>

\* lines 324-333
DeleteLog(p) ==
    /\ At(p, "d_log")
    /\ Set(p, Returned(Logged(call[p], TRUE)))
    /\ UNCHANGED <<sites, certs, artifacts, enabled, nextId, activated, ncalls, ambient>>

(***************************************************************************)
(* DomainsService.toggleSSL                                                *)
(***************************************************************************)
\* mutant: the certificate check of lines 354-358 is left out
StartToggleUnchecked(p) ==
    /\ CanStart(p)
    /\ \E id \in SiteIds, sslEnabled \in BOOLEAN :
         LET c == Did([Fresh("toggle", World) EXCEPT !.id = id, !.flag = sslEnabled],
                      "findById")
         IN  IF ~sites[id].present
             THEN Set(p, Thrown(c, "NotFound"))
             ELSE Set(p, [c EXCEPT !.pc = "t_update", !.dom = WithRelations(id)])
    /\ ncalls' = ncalls + 1
    /\ UNCHANGED <<sites, certs, artifacts, enabled, nextId, activated, ambient>>

\* lines 348-358: findById, 'Domain not found', 'Cannot enable SSL'
StartToggle(p) ==
    /\ CanStart(p)
    /\ \E id \in SiteIds, sslEnabled \in BOOLEAN :
         LET c == Did([Fresh("toggle", World) EXCEPT !.id = id, !.flag = sslEnabled],
                      "findById")
         IN  IF ~sites[id].present
             THEN Set(p, Thrown(c, "NotFound"))
             ELSE IF sslEnabled /\ ~certs[id].present
                  THEN Set(p, Thrown(c, "PreconditionFailed"))
                  ELSE Set(p, [c EXCEPT !.pc = "t_update", !.dom = WithRelations(id)])
    /\ ncalls' = ncalls + 1
    /\ UNCHANGED <<sites, certs, artifacts, enabled, nextId, activated, ambient>>

\* line 361: domainsRepository.updateSSL(id, sslEnabled)
ToggleUpdate(p) ==
    /\ At(p, "t_update")
    /\ LET c == Did(call[p], "updateSSL")
           s == [sites[c.id] EXCEPT !.sslEnabled = c.flag]
       IN  IF sites[c.id].present
           THEN /\ sites' = [sites EXCEPT ![c.id] = s]
                /\ Set(p, [c EXCEPT !.pc = "t_generate",
                                    !.ret = [site |-> s, cert |-> certs[c.id]]])
           ELSE /\ Set(p, Thrown(c, "Conflict"))
                /\ UNCHANGED sites
    /\ UNCHANGED <<certs, artifacts, enabled, nextId, activated, ncalls, ambient>>

\* line 374: generateConfig(updatedDomain); a throw leaves the handler
ToggleGenerate(p) ==
    /\ At(p, "t_generate")
    /\ LET c == Did(call[p], "generate")
       IN  IF ValidConfig(c.ret)
           THEN /\ artifacts' = [artifacts EXCEPT ![c.ret.site.name] = Render(c.ret)]
                /\ Set(p, [c EXCEPT !.pc = "t_reload"])
           ELSE /\ Set(p, Thrown(c, "InvalidConfig"))
                /\ UNCHANGED artifacts
    /\ UNCHANGED <<sites, certs, enabled, nextId, activated, ncalls, ambient>>

\* line 377: autoReload(true), its result is not looked at
ToggleReload(p) ==
    /\ At(p, "t_reload")
    /\ \E ok \in BOOLEAN :
         /\ activated' = IF ok THEN activated \cup {call[p].id} ELSE activated
         /\ Set(p, [Did(call[p], IF ok THEN "reload:ok" ELSE "reload:fail")
                      EXCEPT !.pc = "t_log"])
    /\ UNCHANGED <<sites, certs, artifacts, enabled, nextId, ncalls, ambient>>

\* lines 380-393: success audit entry, return updatedDomain
ToggleLog(p) ==
    /\ At(p, "t_log")
    /\ Set(p, Returned(Logged(call[p], TRUE)))
    /\ UNCHANGED <<sites, certs, artifacts, enabled, nextId, activated, ncalls, ambient>>

(***************************************************************************)
(* SSLService.deleteCertificate                                            *)
(***************************************************************************)
\* lines 560-563: findById, 'SSL certificate not found'
StartDeleteCert(p) ==
    /\ CanStart(p)
    /\ \E id \in SiteIds :
         LET c == Did([Fresh("deleteCert", World) EXCEPT !.id = id], "findCert")
         IN  IF ~certs[id].present
             THEN Set(p, Thrown(c, "NotFound"))
             ELSE Set(p, [c EXCEPT !.pc = "x_status", !.dom = WithRelations(id)])
    /\ ncalls' = ncalls + 1
    /\ UNCHANGED <<sites, certs, artifacts, enabled, nextId, activated, ambient>>

\* line 575: sslRepository.updateDomainSSLStatus(domainId, false, null)
DeleteCertStatus(p) ==
    /\ At(p, "x_status")
    /\ LET c == Did(call[p], "updateSSLStatus")
       IN  IF sites[c.id].present
           THEN /\ sites' = [sites EXCEPT ![c.id].sslEnabled = FALSE,
                                          ![c.id].sslExpiry = NoDate]
                /\ Set(p, [c EXCEPT !.pc = "x_row"])
           ELSE /\ Set(p, Thrown(c, "Conflict"))
                /\ UNCHANGED sites
    /\ UNCHANGED <<certs, artifacts, enabled, nextId, activated, ncalls, ambient>>

\* line 578: sslRepository.delete(id)
DeleteCertRow(p) ==
    /\ At(p, "x_row")
    /\ LET c == Did(call[p], "deleteCert")
       IN  IF certs[c.id].present
           THEN /\ certs' = [certs EXCEPT ![c.id] = NoCert]
                /\ Set(p, [c EXCEPT !.pc = "x_log"])
           ELSE /\ Set(p, Thrown(c, "Conflict"))
                /\ UNCHANGED certs
    /\ UNCHANGED <<sites, artifacts, enabled, nextId, activated, ncalls, ambient>>

\* lines 581-589
DeleteCertLog(p) ==
    /\ At(p, "x_log")
    /\ IF loggerUp
       THEN Set(p, Returned(Logged(call[p], TRUE)))
       ELSE Set(p, LogThrown(Did(call[p], "log:fail")))
    /\ UNCHANGED <<sites, certs, artifacts, enabled, nextId, activated, ncalls, ambient>>

(***************************************************************************)
(* SSLService.uploadManualCertificate                                      *)
(***************************************************************************)
\* what the uploaded PEM holds: its common name, its validity (days from now)
\* and its issuer, whether it parses, and what validateKeyPair says of the key
CertNames ==
    {HostChars("a.test"), HostChars("b.test"), <<"*", ".", "t", "e", "s", "t">>}

UploadDays == {-1, 10, 90}

\* keys: RSA keys with their modulus n, a key of another type, and text that is
\* no key at all
RsaKey(n) == [type |-> "rsa", n |-> n]

EcKey == [type |-> "ec", n |-> 0]

GarbageKey == [type |-> "garbage", n |-> 0]

\* the certificate's public key, the private key, the common name and the DNS
\* names of the subjectAltName extension
UploadInputs ==
    [parses : BOOLEAN, certKey : {RsaKey(1), EcKey},
     privateKey : {RsaKey(1), RsaKey(2), EcKey, GarbageKey},
     commonName : {HostChars("a.test"), HostChars("b.test")},
     sans : {<<>>, <<HostChars("a.test")>>}, days : {-1, 10},
     issuer : {"", "Let's Encrypt"}, certIssuer : {""}]

\* mutant: keys that cannot be compared are reported as a mismatch
validateKeyPairStrict(certKey, privateKey) ==
    certKey.type = "rsa" /\ privateKey.type = "rsa" /\ certKey.n = privateKey.n

\* AcmeService.validateKeyPair: node-forge reads RSA only, a certificate or a key
\* it cannot read throws inside the try and the catch returns true; the moduli
\* are compared when both keys have one; true otherwise
validateKeyPair(certKey, privateKey) ==
    IF certKey.type # "rsa" THEN TRUE
    ELSE IF privateKey.type # "rsa" THEN TRUE
    ELSE certKey.n = privateKey.n

\* parseCertificate: the DNS names of the extension, the common name when there
\* are none
ParsedSans(dto) ==
    IF dto.sans = <<>> /\ dto.commonName # <<>> THEN <<dto.commonName>> ELSE dto.sans

\* lines 367-369: the common name or any SAN matches the Site's name
domainMatches(dto, name) ==
    \/ matchesHostname(dto.commonName, HostChars(name))
    \/ \E i \in 1..Len(ParsedSans(dto)) :
          matchesHostname(ParsedSans(dto)[i], HostChars(name))

\* lines 287-295: the domain lookup
StartUpload(p, uploads) ==
    /\ CanStart(p)
    /\ \E id \in SiteIds, dto \in uploads :
         LET c == Did([Fresh("upload", World) EXCEPT !.id = id, !.input = dto],
                      "findDomain")
         IN  IF ~sites[id].present
             THEN Set(p, Thrown(c, "NotFound"))
             ELSE Set(p, [c EXCEPT !.pc = "u_check", !.dom = WithRelations(id)])
    /\ ncalls' = ncalls + 1
    /\ UNCHANGED <<sites, certs, artifacts, enabled, nextId, activated, ambient>>

\* mutant: an expired certificate is stored with the status "expired"
UploadCheckKeepsExpired(p) ==
    /\ At(p, "u_check")
    /\ LET c == Did(call[p], "findByDomainId")
           dto == c.input
           validTo == now + dto.days * Day
           finalIssuer == IF dto.issuer # "" THEN dto.issuer
                          ELSE IF dto.certIssuer # "" THEN dto.certIssuer
                          ELSE MANUAL_ISSUER
       IN  IF certs[c.id].present THEN Set(p, Thrown(c, "AlreadyExists"))
           ELSE IF ~dto.parses THEN Set(p, Thrown(c, "ParseError"))
           ELSE IF ~validateKeyPair(dto.certKey, dto.privateKey)
           THEN Set(p, Thrown(c, "KeyMismatch"))
           ELSE IF ~domainMatches(dto, c.dom.site.name)
           THEN Set(p, Thrown(c, "DomainMismatch"))
           ELSE Set(p, [c EXCEPT !.pc = "u_store",
                                 !.cert = [present |-> TRUE, validTo |-> validTo,
                                           notAfter |-> validTo, autoRenew |-> FALSE,
                                           status |-> calculateStatus(validTo),
                                           issuer |-> finalIssuer]])
    /\ UNCHANGED <<sites, certs, artifacts, enabled, nextId, activated, ncalls, ambient>>

\* lines 297-394: the existing-certificate check, parseCertificate, validateKeyPair
\* (only a reported mismatch rejects), matchesHostname on the common name and the SANs, the
\* expiry check, finalIssuer and calculateStatus
UploadCheck(p) ==
    /\ At(p, "u_check")
    /\ LET c == Did(call[p], "findByDomainId")
           dto == c.input
           validTo == now + dto.days * Day
           finalIssuer == IF dto.issuer # "" THEN dto.issuer
                          ELSE IF dto.certIssuer # "" THEN dto.certIssuer
                          ELSE MANUAL_ISSUER
       IN  IF certs[c.id].present THEN Set(p, Thrown(c, "AlreadyExists"))
           ELSE IF ~dto.parses THEN Set(p, Thrown(c, "ParseError"))
           ELSE IF ~validateKeyPair(dto.certKey, dto.privateKey)
           THEN Set(p, Thrown(c, "KeyMismatch"))
           ELSE IF ~domainMatches(dto, c.dom.site.name)
           THEN Set(p, Thrown(c, "DomainMismatch"))
           ELSE IF validTo < now THEN Set(p, Thrown(c, "Expired"))
           ELSE Set(p, [c EXCEPT !.pc = "u_store",
                                 !.cert = [present |-> TRUE, validTo |-> validTo,
                                           notAfter |-> validTo, autoRenew |-> FALSE,
                                           status |-> calculateStatus(validTo),
                                           issuer |-> finalIssuer]])
    /\ UNCHANGED <<sites, certs, artifacts, enabled, nextId, activated, ncalls, ambient>>

\* line 417: sslRepository.create
UploadStore(p) ==
    /\ At(p, "u_store")
    /\ LET c == Did(call[p], "createCert")
       IN  IF sites[c.id].present /\ ~certs[c.id].present
           THEN /\ certs' = [certs EXCEPT ![c.id] = c.cert]
                /\ Set(p, [c EXCEPT !.pc = "u_expiry"])
           ELSE /\ Set(p, Thrown(c, "Conflict"))
                /\ UNCHANGED certs
    /\ UNCHANGED <<sites, artifacts, enabled, nextId, activated, ncalls, ambient>>

\* line 433: sslRepository.updateDomainSSLExpiry (SSL is not enabled here)
UploadExpiry(p) ==
    /\ At(p, "u_expiry")
    /\ LET c == Did(call[p], "updateExpiry")
       IN  IF sites[c.id].present
           THEN /\ sites' = [sites EXCEPT ![c.id].sslExpiry = Some(c.cert.validTo)]
                /\ Set(p, [c EXCEPT !.pc = "u_log"])
           ELSE /\ Set(p, Thrown(c, "Conflict"))
                /\ UNCHANGED sites
    /\ UNCHANGED <<certs, artifacts, enabled, nextId, activated, ncalls, ambient>>

\* lines 436-446: the audit entry, return the certificate
UploadLog(p) ==
    /\ At(p, "u_log")
    /\ IF loggerUp
       THEN Set(p, Returned([Logged(call[p], TRUE) EXCEPT !.out = call[p].cert]))
       ELSE Set(p, LogThrown(Did(call[p], "log:fail")))
    /\ UNCHANGED <<sites, certs, artifacts, enabled, nextId, activated, ncalls, ambient>>

(***************************************************************************)
(* SSLService.updateCertificate                                            *)
(***************************************************************************)
UpdateCertInputs ==
    [certificate : {"none", "garbage", "new"}, days : UploadDays,
     certIssuer : {"Other CA"},
     autoRenew : {None, Some(TRUE), Some(FALSE)}]

\* lines 465-476: findById
StartUpdateCert(p, updates) ==
    /\ CanStart(p)
    /\ \E id \in SiteIds, dto \in updates :
         LET c == Did([Fresh("updateCert", World) EXCEPT !.id = id, !.input = dto],
                      "findCert")
         IN  IF ~certs[id].present
             THEN Set(p, Thrown(c, "NotFound"))
             ELSE Set(p, [c EXCEPT !.dom = WithRelations(id),
                                   !.pc = IF dto.certificate = "none"
                                          THEN "v_store" ELSE "v_parse"])
    /\ ncalls' = ncalls + 1
    /\ UNCHANGED <<sites, certs, artifacts, enabled, nextId, activated, ambient>>

\* lines 478-506: parseCertificate, calculateStatus, updateDomainSSLExpiry; any
\* throw in the block becomes 'Invalid certificate format'
UpdateCertParse(p) ==
    /\ At(p, "v_parse")
    /\ LET c == Did(call[p], "parse")
           validTo == now + c.input.days * Day
       IN  IF c.input.certificate = "garbage" \/ ~sites[c.id].present
           THEN /\ Set(p, Thrown(c, "ParseError"))
                /\ UNCHANGED sites
           ELSE /\ sites' = [sites EXCEPT ![c.id].sslExpiry = Some(validTo)]
                /\ Set(p, [Did(c, "updateExpiry")
                             EXCEPT !.pc = "v_store",
                                    !.cert = [present |-> TRUE, validTo |-> validTo,
                                              notAfter |-> validTo,
                                              autoRenew |-> c.dom.cert.autoRenew,
                                              status |-> calculateStatus(validTo),
                                              issuer |-> c.input.certIssuer]])
    /\ UNCHANGED <<certs, artifacts, enabled, nextId, activated, ncalls, ambient>>

\* line 509: sslRepository.update(id, updateData)
UpdateCertStore(p) ==
    /\ At(p, "v_store")
    /\ LET c == Did(call[p], "updateCert")
           old == certs[c.id]
           base == IF c.input.certificate = "new"
                   THEN [old EXCEPT !.validTo = c.cert.validTo,
                                    !.notAfter = c.cert.notAfter,
                                    !.status = c.cert.status,
                                    !.issuer = c.cert.issuer]
                   ELSE old
       IN  IF old.present
           THEN /\ certs' = [certs EXCEPT
                               ![c.id] = [base EXCEPT
                                 !.autoRenew = Merge(old.autoRenew, c.input.autoRenew)]]
                /\ Set(p, [c EXCEPT !.pc = "v_log"])
           ELSE /\ Set(p, Thrown(c, "Conflict"))
                /\ UNCHANGED certs
    /\ UNCHANGED <<sites, artifacts, enabled, nextId, activated, ncalls, ambient>>

\* lines 537-548: the audit entry, return the updated certificate
UpdateCertLog(p) ==
    /\ At(p, "v_log")
    /\ IF loggerUp
       THEN Set(p, Returned([Logged(call[p], TRUE) EXCEPT !.out = certs[call[p].id]]))
       ELSE Set(p, LogThrown(Did(call[p], "log:fail")))
    /\ UNCHANGED <<sites, certs, artifacts, enabled, nextId, activated, ncalls, ambient>>

(***************************************************************************)
(* SSLService.renewCertificate (manual renewal)                            *)
(***************************************************************************)
\* mutant: the renewal is not refused for the issuer or the days left
StartRenewUnchecked(p) ==
    /\ CanStart(p)
    /\ \E id \in DOMAIN certs :
         LET c == Did([Fresh("renew", World) EXCEPT !.id = id], "findCert")
         IN  IF ~certs[id].present THEN Set(p, Thrown(c, "NotFound"))
             ELSE Set(p, [c EXCEPT !.pc = "n_acme", !.dom = WithRelations(id)])
    /\ ncalls' = ncalls + 1
    /\ UNCHANGED <<sites, certs, artifacts, enabled, nextId, activated, ambient>>

\* lines 601-625: findById, the issuer allow-list, more than 30 days left
StartRenew(p) ==
    /\ CanStart(p)
    /\ \E id \in DOMAIN certs :
         LET c == Did([Fresh("renew", World) EXCEPT !.id = id], "findCert")
         IN  IF ~certs[id].present THEN Set(p, Thrown(c, "NotFound"))
             ELSE IF certs[id].issuer \notin AUTO_RENEWABLE_ISSUERS
             THEN Set(p, Thrown(c, "NotRenewable"))
             ELSE IF DaysUntilExpiry(certs[id].validTo, now) > 30
             THEN Set(p, Thrown(c, "NotEligible"))
             ELSE Set(p, [c EXCEPT !.pc = "n_acme", !.dom = WithRelations(id)])
    /\ ncalls' = ncalls + 1
    /\ UNCHANGED <<sites, certs, artifacts, enabled, nextId, activated, ambient>>

\* lines 632-661: acmeService.renewCertificate and parseCertificate; when that
\* throws, the old material is kept and the expiry is set 90 days ahead
RenewAcme(p) ==
    /\ At(p, "n_acme")
    /\ \E ok \in BOOLEAN :
         LET old == call[p].dom.cert
         IN  Set(p, [Did(call[p], IF ok THEN "renew:ok" ELSE "renew:fail")
                       EXCEPT !.pc = "n_store",
                              !.cert = [old EXCEPT
                                          !.validTo = now + 90 * Day,
                                          !.notAfter = IF ok THEN now + 90 * Day
                                                       ELSE old.notAfter]])
    /\ UNCHANGED <<sites, certs, artifacts, enabled, nextId, activated, ncalls, ambient>>

\* lines 664-683: sslRepository.update with status 'valid'
RenewStore(p) ==
    /\ At(p, "n_store")
    /\ LET c == Did(call[p], "updateCert")
       IN  IF certs[c.id].present
           THEN /\ certs' = [certs EXCEPT ![c.id] =
                               [@ EXCEPT !.validTo = c.cert.validTo,
                                         !.notAfter = c.cert.notAfter,
                                         !.issuer = c.cert.issuer,
                                         !.status = "valid"]]
                /\ Set(p, [c EXCEPT !.pc = "n_expiry"])
           ELSE /\ Set(p, Thrown(c, "Conflict"))
                /\ UNCHANGED certs
    /\ UNCHANGED <<sites, artifacts, enabled, nextId, activated, ncalls, ambient>>

\* line 686: sslRepository.updateDomainSSLExpiry
RenewExpiry(p) ==
    /\ At(p, "n_expiry")
    /\ LET c == Did(call[p], "updateExpiry")
       IN  IF sites[c.id].present
           THEN /\ sites' = [sites EXCEPT ![c.id].sslExpiry = Some(c.cert.validTo)]
                /\ Set(p, [c EXCEPT !.pc = "n_log"])
           ELSE /\ Set(p, Thrown(c, "Conflict"))
                /\ UNCHANGED sites
    /\ UNCHANGED <<certs, artifacts, enabled, nextId, activated, ncalls, ambient>>

\* lines 689-699: the audit entry, return the updated certificate
RenewLog(p) ==
    /\ At(p, "n_log")
    /\ IF loggerUp
       THEN Set(p, Returned([Logged(call[p], TRUE) EXCEPT !.out = certs[call[p].id]]))
       ELSE Set(p, LogThrown(Did(call[p], "log:fail")))
    /\ UNCHANGED <<sites, certs, artifacts, enabled, nextId, activated, ncalls, ambient>>

(***************************************************************************)
(* SSLService.getCertificateById, getAllCertificates                       *)
(***************************************************************************)
\* lines 171-173: the stored row as it is
GetCertificateById(p) ==
    /\ CanStart(p)
    /\ \E id \in SiteIds :
         Set(p, Returned([Did(Fresh("getById", World), "findCert")
                            EXCEPT !.id = id, !.out = certs[id]]))
    /\ ncalls' = ncalls + 1
    /\ UNCHANGED <<sites, certs, artifacts, enabled, nextId, activated, ambient>>

\* one certificate of getAllCertificates after the re-parse (lines 112-146): the
\* dates of the material replace the stored ones when they differ
Resynced(cert, parses) ==
    IF cert.present /\ parses /\ cert.notAfter # cert.validTo
    THEN [cert EXCEPT !.validTo = cert.notAfter,
                      !.status = calculateStatus(cert.notAfter)]
    ELSE cert

\* lines 105-166: every certificate with the status computed at the time of the
\* call
GetAllCertificates(p) ==
    /\ CanStart(p)
    /\ \E parses \in BOOLEAN :
         LET synced == [i \in SiteIds |-> Resynced(certs[i], parses)]
         IN  /\ certs' = synced
             /\ Set(p, Returned([Did(Fresh("getAll", World), "findAll")
                  EXCEPT !.flag = parses,
                         !.out = [i \in SiteIds |->
                                    IF synced[i].present
                                    THEN [synced[i] EXCEPT
                                            !.status = calculateStatus(synced[i].validTo)]
                                    ELSE NoCert]]))
    /\ ncalls' = ncalls + 1
    /\ UNCHANGED <<sites, artifacts, enabled, nextId, activated, ambient>>

(***************************************************************************)
(* SSLSchedulerService: the sweep and the renewals it starts.  The sweep   *)
(* does not wait for a renewal; the renewals of a sweep are carried by the *)
(* call record of the sweep (due: the certificates still to be renewed).   *)
(***************************************************************************)
\* private renewThresholdDays: number = 30
renewThresholdDays == 30

\* mutant: the test of the manual renewal (the floor of the days left)
DueByDays(cert) ==
    /\ cert.present
    /\ cert.autoRenew
    /\ cert.issuer \in AUTO_RENEWABLE_ISSUERS
    /\ DaysUntilExpiry(cert.validTo, now) <= renewThresholdDays

\* lines 494-507: autoRenew, the issuer allow-list, validTo <= thresholdDate
Due(cert) ==
    /\ cert.present
    /\ cert.autoRenew
    /\ cert.issuer \in AUTO_RENEWABLE_ISSUERS
    /\ cert.validTo <= now + renewThresholdDays * Day

\* the renewal of certificate id is over: on to the next one of the sweep
Rest(c, id) ==
    IF c.due \ {id} = {}
    THEN Returned([c EXCEPT !.due = {}])
    ELSE [c EXCEPT !.due = @ \ {id}, !.pc = "s_acme"]

\* lines 480-531: checkAndRenewExpiringCertificates.  The renewals are started
\* and not awaited: the promise of the sweep is resolved (flag) when the loop is
\* over, the call record then stands for the renewals that are still pending (due).
\* A throw of findAll is caught at line 528 and the sweep resolves as well.
SweepCalled(p) ==
    /\ CanStart(p)
    /\ \E read \in BOOLEAN :
         LET c == [Fresh("sweep", World) EXCEPT !.flag = TRUE]
             due == {i \in DOMAIN certs : Due(certs[i])}
         IN  IF ~read THEN Set(p, Returned(Did(c, "findAll:fail")))
             ELSE IF due = {} THEN Set(p, Returned(Did(c, "findAll")))
             ELSE Set(p, [Did(c, "findAll") EXCEPT !.pc = "s_acme", !.due = due])
    /\ ncalls' = ncalls + 1
    /\ UNCHANGED <<sites, certs, artifacts, enabled, nextId, activated, now, loggerUp,
                   probe>>

\* lines 670-673: triggerCheck, a sweep outside the timer
StartSweep(p) == SweepCalled(p) /\ UNCHANGED scheduler

MaxTimers == 2

\* lines 607-635: start().  A scheduler that is running returns its handle and
\* does nothing else (lines 608-611); otherwise the first sweep is called at once
\* and setInterval registers the callback
SchedulerStart(p) ==
    /\ scheduler.intervalId = 0
    /\ scheduler.nextTimer <= MaxTimers
    /\ SweepCalled(p)
    /\ scheduler' = [scheduler EXCEPT !.intervalId = scheduler.nextTimer,
                                      !.timers = @ \cup {scheduler.nextTimer},
                                      !.nextTimer = @ + 1]

\* lines 626-630: the callback of a live interval calls the sweep
TimerFires(p) ==
    /\ scheduler.timers # {}
    /\ SweepCalled(p)
    /\ scheduler' = [scheduler EXCEPT !.fired = @ + 1]

\* lines 640-650: stop(timerId?), with no argument or with a handle start()
\* returned before: clearInterval(timerId || this.intervalId), intervalId = null
SchedulerStop ==
    /\ \E timerId \in 0..(scheduler.nextTimer - 1) :
         LET timerToStop == IF timerId # 0 THEN timerId ELSE scheduler.intervalId
         IN  /\ timerToStop # 0
             /\ scheduler' = [scheduler EXCEPT !.timers = @ \ {timerToStop},
                                               !.intervalId = 0]
    /\ UNCHANGED <<sites, certs, artifacts, enabled, nextId, call, activated, ncalls,
                   now, loggerUp, probe>>

\* mutant: 'Rate limited' and 'not yet due' are handled as failures
AutoRenewAcmeMarksDeferred(p) ==
    /\ At(p, "s_acme")
    /\ \E id \in call[p].due, outcome \in {"ok", "rate", "notdue", "fatal"} :
         LET c == [Did(call[p], "renew:" \o outcome) EXCEPT !.id = id]
         IN  IF outcome = "ok"
             THEN Set(p, [c EXCEPT !.pc = "s_store",
                                   !.cert = [present |-> TRUE,
                                             validTo |-> now + 90 * Day,
                                             notAfter |-> now + 90 * Day,
                                             autoRenew |-> TRUE, status |-> "valid",
                                             issuer |-> "ZeroSSL"]])
             ELSE Set(p, [c EXCEPT !.pc = "s_fatal"])
    /\ UNCHANGED <<sites, certs, artifacts, enabled, nextId, activated, ncalls, ambient>>

\* lines 541-544 and 573-587: acmeService.renewCertificate; 'Rate limited' and
\* 'not yet due for renewal' end the renewal without a change
AutoRenewAcme(p) ==
    /\ At(p, "s_acme")
    /\ \E id \in call[p].due, outcome \in {"ok", "rate", "notdue", "fatal"} :
         LET c == [Did(call[p], "renew:" \o outcome) EXCEPT !.id = id]
         IN  IF outcome = "ok"
             THEN Set(p, [c EXCEPT !.pc = "s_store",
                                   !.cert = [present |-> TRUE,
                                             validTo |-> now + 90 * Day,
                                             notAfter |-> now + 90 * Day,
                                             autoRenew |-> TRUE, status |-> "valid",
                                             issuer |-> "ZeroSSL"]])
             ELSE IF outcome = "fatal"
             THEN Set(p, [c EXCEPT !.pc = "s_fatal"])
             ELSE Set(p, Rest(c, id))
    /\ UNCHANGED <<sites, certs, artifacts, enabled, nextId, activated, ncalls, ambient>>

\* mutant: the stored status is left as it was
AutoRenewStoreKeepsStatus(p) ==
    /\ At(p, "s_store")
    /\ LET c == Did(call[p], "updateCert")
       IN  IF certs[c.id].present
           THEN /\ certs' = [certs EXCEPT ![c.id] =
                               [@ EXCEPT !.validTo = c.cert.validTo,
                                         !.notAfter = c.cert.notAfter,
                                         !.issuer = c.cert.issuer]]
                /\ Set(p, [c EXCEPT !.pc = "s_expiry"])
           ELSE /\ Set(p, [c EXCEPT !.pc = "s_fatal"])
                /\ UNCHANGED certs
    /\ UNCHANGED <<sites, artifacts, enabled, nextId, activated, ncalls, ambient>>

\* lines 547-562: sslRepository.update with status 'valid'; a throw goes to the
\* catch of line 573
AutoRenewStore(p) ==
    /\ At(p, "s_store")
    /\ LET c == Did(call[p], "updateCert")
       IN  IF certs[c.id].present
           THEN /\ certs' = [certs EXCEPT ![c.id] =
                               [@ EXCEPT !.validTo = c.cert.validTo,
                                         !.notAfter = c.cert.notAfter,
                                         !.issuer = c.cert.issuer,
                                         !.status = "valid"]]
                /\ Set(p, [c EXCEPT !.pc = "s_expiry"])
           ELSE /\ Set(p, [c EXCEPT !.pc = "s_fatal"])
                /\ UNCHANGED certs
    /\ UNCHANGED <<sites, artifacts, enabled, nextId, activated, ncalls, ambient>>

\* mutant: the renewal activates the new certificate by a reload
AutoRenewExpiryReloads(p) ==
    /\ At(p, "s_expiry")
    /\ LET c == Did(Did(call[p], "updateExpiry"), "reload:ok")
       IN  /\ sites' = IF certs[c.id].present /\ sites[c.id].present
                       THEN [sites EXCEPT ![c.id].sslExpiry = Some(c.cert.validTo)]
                       ELSE sites
           /\ Set(p, Rest(c, c.id))
    /\ UNCHANGED <<certs, artifacts, enabled, nextId, activated, ncalls, ambient>>

\* lines 565-568: findById, updateDomainSSLExpiry
AutoRenewExpiry(p) ==
    /\ At(p, "s_expiry")
    /\ LET c == Did(call[p], "updateExpiry")
       IN  /\ sites' = IF certs[c.id].present /\ sites[c.id].present
                       THEN [sites EXCEPT ![c.id].sslExpiry = Some(c.cert.validTo)]
                       ELSE sites
           /\ Set(p, Rest(c, c.id))
    /\ UNCHANGED <<certs, artifacts, enabled, nextId, activated, ncalls, ambient>>

\* mutant: the failure of one renewal rejects the sweep and drops the others
AutoRenewFatalAborts(p) ==
    /\ At(p, "s_fatal")
    /\ LET c == Did(call[p], "fatal")
       IN  /\ certs' = IF certs[c.id].present
                       THEN [certs EXCEPT ![c.id].status = "expiring"]
                       ELSE certs
           /\ Set(p, Thrown([c EXCEPT !.due = {}], "RenewFailed"))
    /\ UNCHANGED <<sites, artifacts, enabled, nextId, activated, ncalls, ambient>>

\* mutant: a failed renewal switches autoRenew off
AutoRenewFatalDisables(p) ==
    /\ At(p, "s_fatal")
    /\ LET c == Did(call[p], "fatal")
       IN  /\ certs' = IF certs[c.id].present
                       THEN [certs EXCEPT ![c.id].status = "expiring",
                                          ![c.id].autoRenew = FALSE]
                       ELSE certs
           /\ Set(p, Rest(c, c.id))
    /\ UNCHANGED <<sites, artifacts, enabled, nextId, activated, ncalls, ambient>>

\* lines 589-600: status 'expiring', whatever validTo is; the error is rethrown to
\* the catch of the sweep (line 517), which logs it
AutoRenewFatal(p) ==
    /\ At(p, "s_fatal")
    /\ LET c == Did(call[p], "fatal")
       IN  /\ certs' = IF certs[c.id].present
                       THEN [certs EXCEPT ![c.id].status = "expiring"]
                       ELSE certs
           /\ Set(p, Rest(c, c.id))
    /\ UNCHANGED <<sites, artifacts, enabled, nextId, activated, ncalls, ambient>>

(***************************************************************************)
(* The environment: the clock, the activity log store.                     *)
(***************************************************************************)
MaxTicks == 4

TickLen == 30 * Day

\* time passes between two calls
Tick ==
    /\ now < MaxTicks * TickLen
    /\ \A p \in Procs : call[p].pc \in {"idle", "done"}
    /\ now' = now + TickLen
    /\ UNCHANGED <<sites, certs, artifacts, enabled, nextId, call, activated, ncalls,
                   loggerUp, probe, scheduler>>

MaxHalfDays == 2

\* half a day passes between two calls
HalfDay ==
    /\ now < MaxHalfDays * (Day \div 2)
    /\ \A p \in Procs : call[p].pc \in {"idle", "done"}
    /\ now' = now + Day \div 2
    /\ UNCHANGED <<sites, certs, artifacts, enabled, nextId, call, activated, ncalls,
                   loggerUp, probe, scheduler>>

\* the activity log store (prisma.activityLog) becomes unavailable
LoggerFails ==
    /\ loggerUp
    /\ loggerUp' = FALSE
    /\ UNCHANGED <<sites, certs, artifacts, enabled, nextId, call, activated, ncalls,
                   now, probe, scheduler>>

(***************************************************************************)
(* DomainsService.reloadNginx                                              *)
(***************************************************************************)
\* line 405: nginxReloadService.reload(); a result without success is returned
\* as it is (line 423), nothing is logged for it
StartReloadNow(p) ==
    /\ CanStart(p)
    /\ \E ok \in BOOLEAN :
         LET c == [Did(Fresh("reload", World), IF ok THEN "reload:ok" ELSE "reload:fail")
                     EXCEPT !.flag = ok]
         IN  /\ Set(p, IF ok THEN [c EXCEPT !.pc = "r_log"] ELSE Returned(c))
             /\ activated' = IF ok
                               THEN activated \cup {i \in SiteIds : sites[i].present
                                                       /\ sites[i].name \in enabled}
                               ELSE activated
    /\ ncalls' = ncalls + 1
    /\ UNCHANGED <<sites, certs, artifacts, enabled, nextId, ambient>>

\* lines 407-421: the audit entry of a successful reload; line 423: return result
ReloadNowLog(p) ==
    /\ At(p, "r_log")
    /\ Set(p, Returned(Logged(call[p], TRUE)))
    /\ UNCHANGED <<sites, certs, artifacts, enabled, nextId, activated, ncalls, ambient>>

(***************************************************************************)
(* Specification: one request at a time.                                   *)
(***************************************************************************)
Step(p, creates, updates) ==
    \/ StartCreate(p, creates) \/ CreateRecord(p) \/ CreateGenerate(p)
    \/ CreateStatus(p) \/ CreateEnable(p) \/ CreateReload(p) \/ CreateUndo(p)
    \/ CreateRollback(p) \/ CreateLog(p)
    \/ StartIssue(p) \/ IssueCheck(p) \/ IssueAcme(p) \/ IssueStore(p)
    \/ IssueExpiry(p) \/ IssueLog(p) \/ IssueLogFail(p)
    \/ CreateSslUpdate(p) \/ CreateSslGenerate(p) \/ CreateSslReload(p)
    \/ CreateSslLog(p) \/ CreateSslFail(p)
    \/ StartUpdate(p) \/ UpdatePersist(p, updates) \/ UpdateRead(p)
    \/ UpdateGenerate(p) \/ UpdateReload(p) \/ UpdateUndo(p) \/ UpdateCatch(p)
    \/ UpdateLog(p)
    \/ StartDelete(p) \/ DeleteConfig(p) \/ DeleteRow(p) \/ DeleteReload(p)
    \/ DeleteLog(p)
    \/ StartToggle(p) \/ ToggleUpdate(p) \/ ToggleGenerate(p) \/ ToggleReload(p)
    \/ ToggleLog(p)
    \/ StartDeleteCert(p) \/ DeleteCertStatus(p) \/ DeleteCertRow(p)
    \/ DeleteCertLog(p)
    \/ StartReloadNow(p) \/ ReloadNowLog(p)

Next == Step(1, CreateInputs, UpdateInputs)

Spec == Init /\ [][Next]_vars

(***************************************************************************)
(* Specification: two requests in flight, interleaved at their awaits.     *)
(***************************************************************************)
ConcCreates ==
    [name : {"a.test"}, modsecEnabled : {FALSE}, upstreams : {<<80>>},
     loadBalancer : {NoLB}, autoCreateSSL : BOOLEAN, sslEmail : {"ok@x.io"}]

StepConc(p) ==
    \/ StartCreate(p, ConcCreates) \/ CreateRecord(p) \/ CreateGenerate(p)
    \/ CreateStatus(p) \/ CreateEnable(p) \/ CreateReload(p) \/ CreateUndo(p)
    \/ CreateRollback(p) \/ CreateLog(p)
    \/ StartIssue(p) \/ IssueCheck(p) \/ IssueAcme(p) \/ IssueStore(p)
    \/ IssueExpiry(p) \/ IssueLog(p) \/ IssueLogFail(p)
    \/ CreateSslUpdate(p) \/ CreateSslGenerate(p) \/ CreateSslReload(p)
    \/ CreateSslLog(p) \/ CreateSslFail(p)
    \/ StartToggle(p) \/ ToggleUpdate(p) \/ ToggleGenerate(p) \/ ToggleReload(p)
    \/ ToggleLog(p)
    \/ StartDeleteCert(p) \/ DeleteCertStatus(p) \/ DeleteCertRow(p)
    \/ DeleteCertLog(p)

NextConc == \E p \in Procs : StepConc(p)

SpecConc == Init /\ [][NextConc]_vars

(***************************************************************************)
(* Specification: the certificate operations and the renewal scheduler,    *)
(* one call at a time, with the clock.                                     *)
(***************************************************************************)
\* the uploads of this specification: RSA certificates without a SAN extension
CertUploads ==
    [parses : BOOLEAN, certKey : {RsaKey(1)},
     privateKey : {RsaKey(1), RsaKey(2), GarbageKey},
     commonName : CertNames, sans : {<<>>}, days : UploadDays,
     issuer : {"", "Let's Encrypt"}, certIssuer : {"", "Other CA"}]

StepCert(p) ==
    \/ StartCreate(p, ConcCreates) \/ CreateRecord(p) \/ CreateGenerate(p)
    \/ CreateStatus(p) \/ CreateEnable(p) \/ CreateReload(p) \/ CreateUndo(p)
    \/ CreateRollback(p) \/ CreateLog(p)
    \/ StartIssue(p) \/ IssueCheck(p) \/ IssueAcme(p) \/ IssueStore(p)
    \/ IssueExpiry(p) \/ IssueLog(p) \/ IssueLogFail(p)
    \/ CreateSslUpdate(p) \/ CreateSslGenerate(p) \/ CreateSslReload(p)
    \/ CreateSslLog(p) \/ CreateSslFail(p)
    \/ StartUpload(p, CertUploads) \/ UploadCheck(p) \/ UploadStore(p)
    \/ UploadExpiry(p) \/ UploadLog(p)
    \/ StartUpdateCert(p, UpdateCertInputs) \/ UpdateCertParse(p)
    \/ UpdateCertStore(p) \/ UpdateCertLog(p)
    \/ StartRenew(p) \/ RenewAcme(p) \/ RenewStore(p) \/ RenewExpiry(p)
    \/ RenewLog(p)
    \/ StartDeleteCert(p) \/ DeleteCertStatus(p) \/ DeleteCertRow(p)
    \/ DeleteCertLog(p)
    \/ GetCertificateById(p) \/ GetAllCertificates(p)
    \/ StartSweep(p) \/ AutoRenewAcme(p) \/ AutoRenewStore(p)
    \/ AutoRenewExpiry(p) \/ AutoRenewFatal(p)

NextCert == StepCert(1) \/ Tick

SpecCert == Init /\ [][NextCert]_vars

(***************************************************************************)
(* Specification: every operation, one call at a time, with an activity    *)
(* log store that may become unavailable.                                  *)
(***************************************************************************)
LogUpdates ==
    {[NoPatch EXCEPT !.modsecEnabled = Some(TRUE)],
     [NoPatch EXCEPT !.upstreams = Some(<<8080>>)]}

LogUploads ==
    [parses : {TRUE}, certKey : {RsaKey(1)}, privateKey : {RsaKey(1)},
     commonName : {HostChars("a.test")}, sans : {<<>>}, days : {10}, issuer : {"", "Let's Encrypt"}, certIssuer : {""}]

LogCertUpdates ==
    [certificate : {"none", "new"}, days : {10}, certIssuer : {"Other CA"},
     autoRenew : {None, Some(TRUE)}]

StepLog(p) ==
    \/ Step(p, ConcCreates, LogUpdates)
    \/ StartUpload(p, LogUploads) \/ UploadCheck(p) \/ UploadStore(p)
    \/ UploadExpiry(p) \/ UploadLog(p)
    \/ StartUpdateCert(p, LogCertUpdates) \/ UpdateCertParse(p)
    \/ UpdateCertStore(p) \/ UpdateCertLog(p)
    \/ StartRenew(p) \/ RenewAcme(p) \/ RenewStore(p) \/ RenewExpiry(p)
    \/ RenewLog(p)

NextLog == StepLog(1) \/ LoggerFails

SpecLog == Init /\ [][NextLog]_vars

(***************************************************************************)
(* Specification: calculateStatus evaluated for a certificate's validTo    *)
(* while the clock advances.                                               *)
(***************************************************************************)
\* the handlers' state, untouched while a pure function is evaluated
service ==
    <<sites, certs, artifacts, enabled, nextId, call, activated, ncalls, loggerUp,
      scheduler>>

InitService ==
    /\ sites = [i \in SiteIds |-> NoSite]
    /\ certs = [i \in SiteIds |-> NoCert]
    /\ artifacts = [n \in Names |-> NoArtifact]
    /\ enabled = {}
    /\ nextId = 1
    /\ loggerUp = TRUE
    /\ scheduler = NoScheduler
    /\ call = [p \in Procs |-> Idle]
    /\ activated = {}
    /\ ncalls = 0

\* the clock readings and expiry dates of the evaluation: around the day
\* boundaries at 0, 1, 29, 30 and 31 days, one clock unit before and after
MaxAdvances == 3

StatusOffsets == {-1, 0, 1}

StatusDates == {k * Day + e : k \in {0, 1, 29, 30, 31}, e \in StatusOffsets}

ClockSteps == {1, Day - 1, Day, 29 * Day, 30 * Day}

InitStatus ==
    /\ now \in {0, 1, Day}
    /\ probe \in [fn : {"calculateStatus"}, validTo : StatusDates, at : {-1},
                  out : {""}, prevAt : {-1}, prev : {""}, advances : {0}]
    /\ InitService

\* calculateStatus(validTo) is called; the previous result is kept beside it
Calculate ==
    /\ probe.fn = "calculateStatus"
    /\ probe.at # now
    /\ probe' = [probe EXCEPT !.out = calculateStatus(probe.validTo), !.at = now,
                              !.prev = probe.out, !.prevAt = probe.at]
    /\ UNCHANGED <<service, now>>

\* time passes
Advance ==
    /\ probe.fn = "calculateStatus"
    /\ probe.advances < MaxAdvances
    /\ \E d \in ClockSteps : now' = now + d
    /\ probe' = [probe EXCEPT !.advances = @ + 1]
    /\ UNCHANGED service

NextStatus == Calculate \/ Advance

SpecStatus == InitStatus /\ [][NextStatus]_vars

(***************************************************************************)
(* Specification: matchesHostname evaluated on a certificate name and a    *)
(* target host name.                                                       *)
(***************************************************************************)
MaxCertLen == 5
MaxHostLen == 5

CertAlphabet == {"*", ".", "a", "B"}
HostAlphabet == {".", "A", "b"}

Strings(alphabet, n) == UNION {[1..k -> alphabet] : k \in 0..n}

InitMatch ==
    /\ now = 0
    /\ probe \in [fn : {"matchesHostname"}, certName : Strings(CertAlphabet, MaxCertLen),
                  domainName : Strings(HostAlphabet, MaxHostLen),
                  called : {FALSE}, out : {FALSE}, rule : {""}]
    /\ InitService

Match ==
    /\ probe.fn = "matchesHostname"
    /\ ~probe.called
    /\ probe' = [probe EXCEPT !.called = TRUE,
                              !.out = matchesHostname(probe.certName, probe.domainName),
                              !.rule = MatchRule(probe.certName, probe.domainName)]
    /\ UNCHANGED <<service, now>>

NextMatch == Match

SpecMatch == InitMatch /\ [][NextMatch]_vars

(***************************************************************************)
(* Properties.                                                             *)
(***************************************************************************)
Has(t, event) == \E i \in 1..Len(t) : t[i] = event

Reloads(t) == Count(t, "reload:ok") + Count(t, "reload:fail")

Finished(p, op) == call[p].op = op /\ call[p].pc = "done"

PreDomain(c) == [site |-> c.pre.sites[c.id], cert |-> c.pre.certs[c.id]]

\* C1: rollback symmetry: after an updateDomain that failed with ReloadFailed the
\* Site row is equal to the row before the call and the artifact on disk is the
\* rendering of the pre-call state.
C1_RollbackSymmetry ==
    \A p \in Procs :
        Finished(p, "update") /\ call[p].err = "ReloadFailed" =>
            LET c == call[p]
            IN  /\ sites[c.id] = c.pre.sites[c.id]
                /\ artifacts[c.pre.sites[c.id].name] = Render(PreDomain(c))

C3_SslPrecondition ==
    \A p \in Procs :
        LET c == call[p]
        IN  (c.op = "toggle" /\ c.flag /\ c.pre.sites[c.id].present
                /\ ~c.pre.certs[c.id].present) =>
                /\ c.pc = "done" /\ c.err = "PreconditionFailed"
                /\ World = c.pre
                /\ c.trace = <<"findById">>

C3_Witness ==
    \E p \in Procs :
        /\ Finished(p, "toggle") /\ call[p].flag
        /\ call[p].err = "PreconditionFailed"
        /\ sites[call[p].id].present /\ ~sites[call[p].id].sslEnabled

\* C4: in every reachable state a Site with sslEnabled = true has a Certificate.
C4_SslNeedsCertificate ==
    \A id \in SiteIds :
        sites[id].present /\ sites[id].sslEnabled => certs[id].present

\* C5: when the reload of toggleSSL fails, the call fails and sslEnabled is back
\* at its pre-call value.
C5_ToggleReverts ==
    \A p \in Procs :
        Finished(p, "toggle") /\ Has(call[p].trace, "reload:fail") =>
            /\ call[p].err # ""
            /\ sites[call[p].id].sslEnabled = call[p].pre.sites[call[p].id].sslEnabled

\* the outcome of the first reload of a createDomain call ("" before it)
FirstReload(c) ==
    IF Has(c.trace, "reload:ok") \/ Has(c.trace, "reload:fail")
    THEN c.trace[CHOOSE i \in 1..Len(c.trace) :
                    /\ c.trace[i] \in {"reload:ok", "reload:fail"}
                    /\ \A j \in 1..(i - 1) : c.trace[j] \notin {"reload:ok", "reload:fail"}]
    ELSE ""

\* C6: a createDomain that ends because generateConfig rejected the Site fails with
\* InvalidConfig, one that ends because the reload failed fails with ReloadFailed;
\* in both cases no Site row of that name and no artifact for it are left and the
\* repository is as before the call.
C6_CreateRollsBack ==
    \A p \in Procs :
        LET c == call[p]
            rejected == c.dom.site.present /\ ~ValidConfig(c.dom)
            failed == FirstReload(c) = "reload:fail"
        IN  Finished(p, "create") /\ (rejected \/ failed) =>
                /\ rejected => c.err = "InvalidConfig"
                /\ failed => c.err = "ReloadFailed"
                /\ FindByName(c.input.name) = {}
                /\ ~artifacts[c.input.name].present
                /\ c.input.name \notin enabled
                /\ sites = c.pre.sites /\ certs = c.pre.certs

C6_Witness ==
    \E p \in Procs :
        /\ Finished(p, "create") /\ call[p].err = "ReloadFailed"
        /\ call[p].id \in SiteIds /\ nextId > call[p].id

\* C7 (as claimed): no Site has stored status active before a reload made for it
\* has succeeded.
C7_ActiveOnlyAfterReload ==
    \A id \in SiteIds :
        sites[id].present /\ sites[id].status = "active" => id \in activated

\* C7 (amended): a Site is created pending; createDomain stores status active before
\* its first reload and deletes the row when that reload fails, so a Site that is
\* active with no successful reload exists only inside its createDomain call,
\* between updateStatus and the rollback.
C7_ActiveBeforeReloadOnlyInCreate ==
    /\ \A id \in SiteIds :
         sites[id].present /\ sites[id].status = "active" /\ id \notin activated =>
             \E p \in Procs :
                 /\ call[p].op = "create" /\ call[p].id = id
                 /\ call[p].pc \in {"c_enable", "c_reload", "c_undo"}
    /\ \A p \in Procs :
         call[p].pc \in {"c_generate", "c_status"} /\ sites[call[p].id].present =>
             sites[call[p].id].status = "pending"

C7_Witness ==
    \E p \in Procs :
        /\ call[p].pc = "c_undo"
        /\ sites[call[p].id].present /\ sites[call[p].id].status = "active"
        /\ call[p].id \notin activated

AutoSslRequested(c) == c.op = "create" /\ c.input.autoCreateSSL /\ c.input.sslEmail # ""

\* C8: once the first reload of createDomain succeeded, nothing later in the call
\* deletes the Site or a stored Certificate or makes the call fail; when issuance
\* fails the Site is returned with sslEnabled = false and an audit entry with
\* success = false follows the entry of the creation.
C8_AutoSslBestEffort ==
    \A p \in Procs :
        LET c == call[p]
        IN  c.op = "create" /\ FirstReload(c) = "reload:ok" =>
                /\ sites[c.id].present
                /\ c.err = ""
                /\ Has(c.trace, "createCert") => certs[c.id].present
                /\ (c.pc = "done" /\ AutoSslRequested(c) /\ ~Has(c.trace, "issue:ok")) =>
                       /\ ~c.ret.site.sslEnabled
                       /\ Len(c.audit) >= 2 /\ c.audit[1] /\ ~c.audit[Len(c.audit)]

C8_Witness ==
    \E p \in Procs :
        /\ Finished(p, "create") /\ call[p].err = ""
        /\ Has(call[p].trace, "issue:fail")
        /\ sites[call[p].id].present

C8_WitnessInnerReload ==
    \E p \in Procs :
        /\ Finished(p, "create") /\ call[p].err = ""
        /\ Count(call[p].trace, "reload:fail") = 1
        /\ certs[call[p].id].present

\* C9: createDomain with a name that exists fails with AlreadyExists; updateDomain,
\* deleteDomain and toggleSSL on an absent id fail with NotFound; such a call
\* changes no Site, Certificate or artifact and calls neither generateConfig nor
\* the reload.
C9_PreconditionFailuresMutateNothing ==
    \A p \in Procs :
        LET c == call[p]
            taken == c.op = "create" /\
                       \E i \in SiteIds : c.pre.sites[i].present
                                            /\ c.pre.sites[i].name = c.input.name
            absent == c.op \in {"update", "delete", "toggle"} /\ ~c.pre.sites[c.id].present
        IN  /\ taken => c.pc = "done" /\ c.err = "AlreadyExists"
            /\ absent => c.pc = "done" /\ c.err = "NotFound"
            /\ (taken \/ absent) =>
                   /\ World = c.pre
                   /\ ~Has(c.trace, "generate") /\ Reloads(c.trace) = 0

C9_Witness ==
    /\ \E p \in Procs : Finished(p, "create") /\ call[p].err = "AlreadyExists"
    /\ \E i \in SiteIds : sites[i].present

C9_WitnessNotFound ==
    \E p \in Procs : Finished(p, "delete") /\ call[p].err = "NotFound"

\* C10: deleteDomain on an existing Site removes the artifact, then deletes the row,
\* then reloads, then logs; when that reload fails nothing is rolled back: the row
\* and the artifact stay absent and the call returns.
C10_DeleteOrder ==
    \A p \in Procs :
        LET c == call[p]
            n == c.dom.site.name
        IN  c.op = "delete" /\ c.pre.sites[c.id].present =>
                /\ c.pc = "d_config" => artifacts[n] = c.pre.artifacts[n] /\ sites[c.id].present
                /\ c.pc = "d_row" => ~artifacts[n].present /\ sites[c.id].present
                /\ c.pc \in {"d_reload", "d_log", "done"} =>
                       ~artifacts[n].present /\ ~sites[c.id].present
                /\ c.pc \in {"d_config", "d_row", "d_reload"} => Reloads(c.trace) = 0
                /\ c.pc \in {"d_log", "done"} => Reloads(c.trace) = 1
                /\ c.pc # "done" => c.audit = <<>>
                /\ c.pc = "done" => c.audit = <<TRUE>> /\ c.err = ""

C10_Witness ==
    \E p \in Procs :
        /\ Finished(p, "delete") /\ Has(call[p].trace, "reload:fail")
        /\ ~sites[call[p].id].present

\* C11 (as claimed): reloadNginx calls the reload once, returns its result as it
\* is, changes no Site, Certificate or artifact, and writes one audit entry for
\* the outcome, whether the reload succeeded or failed.
C11_ReloadNowLogsOutcome ==
    \A p \in Procs :
        Finished(p, "reload") =>
            LET c == call[p]
            IN  /\ Reloads(c.trace) = 1
                /\ c.flag = Has(c.trace, "reload:ok")
                /\ World = c.pre
                /\ Len(c.audit) = 1

MutatingOps == {"create", "update", "delete", "toggle"}

\* C12 (as claimed): every finished createDomain, updateDomain, deleteDomain and
\* toggleSSL call, whether it returned or threw, has written exactly one audit
\* entry.
C12_ExactlyOneAuditEntry ==
    \A p \in Procs :
        call[p].op \in MutatingOps /\ call[p].pc = "done" => Len(call[p].audit) = 1

\* C12, the other direction of the divergence: a createDomain with auto-SSL never
\* writes more than one audit entry.
C12_AutoSslOneEntry ==
    \A p \in Procs :
        Finished(p, "create") /\ call[p].err = "" => Len(call[p].audit) <= 1

\* no reload is called after a reload that reported failure
NoReloadAfterFailure(t) ==
    \A i \in 1..Len(t) :
        t[i] = "reload:fail" =>
            \A j \in (i + 1)..Len(t) : t[j] \notin {"reload:ok", "reload:fail"}

\* C14 (as claimed): in createDomain, updateDomain, deleteDomain and toggleSSL a
\* reload that reported failure is not followed by another reload in the same
\* call, and the call returns an error to its caller.
C14_ReloadFailureSurfaced ==
    \A p \in Procs :
        /\ call[p].op \in MutatingOps => NoReloadAfterFailure(call[p].trace)
        /\ call[p].op \in MutatingOps /\ call[p].pc = "done"
             /\ Has(call[p].trace, "reload:fail") => call[p].err # ""

\* C14, the part that holds: a failed reload is never retried within the call.
C14_NeverRetried ==
    \A p \in Procs : call[p].op \in MutatingOps => NoReloadAfterFailure(call[p].trace)

\* the collaborator calls, other than the audit write, that report a failure
StepFailures == {"issue:fail", "renew:fail", "reload:fail"}

\* C13 (as claimed): an operation in which every step other than the audit write
\* succeeded reports success to its caller: no finished call has failed with the
\* error of the activity logger after a run without any other failure.
C13_LoggerNeverFailsParent ==
    \A p \in Procs :
        call[p].pc = "done" /\ Has(call[p].trace, "log:fail")
          /\ (\A i \in 1..Len(call[p].trace) : call[p].trace[i] \notin StepFailures)
        => call[p].err # "LogFailed"

CertOps ==
    {"issue", "upload", "updateCert", "deleteCert", "renew", "getById", "getAll", "sweep"}

IssuePcs == {"i_check", "i_acme", "i_store", "i_expiry", "i_log", "i_logfail"}

\* C15: no certificate operation (issue, upload, update, delete, manual renewal,
\* the reads) and no step of the scheduler (sweep, renewal) calls the reload: the
\* trace of such a call holds no reload, and while createDomain is inside
\* issueAutoCertificate its only reload is the one createDomain made before.
C15_OnlyReconcilerReloads ==
    \A p \in Procs :
        /\ call[p].op \in CertOps => Reloads(call[p].trace) = 0
        /\ call[p].op = "create" /\ call[p].pc \in IssuePcs => Reloads(call[p].trace) = 1

C15_Witness ==
    \E p \in Procs :
        /\ Finished(p, "sweep")
        /\ Has(call[p].trace, "renew:ok") /\ Has(call[p].trace, "updateExpiry")
        /\ sites[call[p].id].sslExpiry = Some(certs[call[p].id].validTo)

C15_WitnessManualRenew ==
    \E p \in Procs : Finished(p, "renew") /\ call[p].err = ""

\* C16 (as claimed): after every completed mutation of a Site or of a Certificate
\* (certificate upload, update, renewal and deletion included) the artifact on
\* disk is the rendering of the current Site and Certificate.
C16_MutationRegenerates ==
    \A p \in Procs :
        LET c == call[p]
        IN  /\ c.pc = "done" /\ c.err = ""
            /\ c.op \in MutatingOps \cup (CertOps \ {"getById", "getAll"})
            /\ c.id \in SiteIds /\ sites[c.id].present
            => artifacts[sites[c.id].name] = Render(WithRelations(c.id))

\* the status of a certificate record is the computed one at time t
StatusCurrent(cert, t) == cert.present => cert.status = StatusAt(cert.validTo, t)

\* C17 (as claimed): the status stored after issuance, upload, update, manual
\* renewal, scheduler renewal and a scheduler Fatal outcome, and the status
\* returned by getCertificateById and getAllCertificates, equals the status
\* computed from validTo and the time of the call.
C17_StatusIsComputed ==
    \A p \in Procs :
        LET c == call[p]
        IN  c.pc = "done" /\ c.err = "" =>
              /\ c.op \in {"issue", "upload", "updateCert", "renew"} =>
                     StatusCurrent(certs[c.id], c.at)
              /\ c.op = "sweep" /\ c.id \in SiteIds => StatusCurrent(certs[c.id], c.at)
              /\ c.op = "getById" => StatusCurrent(c.out, c.at)
              /\ c.op = "getAll" => \A i \in SiteIds : StatusCurrent(c.out[i], c.at)

\* C17, by case: the read of one certificate
C17_ReadById ==
    \A p \in Procs : Finished(p, "getById") => StatusCurrent(call[p].out, call[p].at)

\* C17, by case: the scheduler's Fatal outcome
C17_AfterFatal ==
    \A p \in Procs :
        Finished(p, "sweep") /\ Has(call[p].trace, "fatal") =>
            StatusCurrent(certs[call[p].id], call[p].at)

\* C17, by case: upload, update and the list read, which call calculateStatus
C17_ComputedWhereCalled ==
    \A p \in Procs :
        LET c == call[p]
        IN  c.pc = "done" /\ c.err = "" =>
              /\ c.op = "upload" => StatusCurrent(certs[c.id], c.at)
              /\ c.op = "getAll" => \A i \in SiteIds : StatusCurrent(c.out[i], c.at)

\* the reference definition of the status: expired if validTo < now, expiring if
\* now <= validTo < now + 30 days, valid otherwise
ComputeStatus(validTo, t) ==
    IF validTo < t THEN "expired"
    ELSE IF validTo < t + 30 * Day THEN "expiring"
    ELSE "valid"

\* C18: calculateStatus agrees with the reference definition for every validTo
\* and every clock reading, at the granularity of the clock, the instants
\* validTo = now and validTo = now + 30 days included.
C18_StatusMatchesReference ==
    probe.fn = "calculateStatus" /\ probe.out # "" =>
        probe.out = ComputeStatus(probe.validTo, probe.at)

C18_Witness ==
    /\ probe.fn = "calculateStatus"
    /\ probe.prev = "valid" /\ probe.validTo = probe.prevAt + 30 * Day
    /\ probe.out = "expiring" /\ probe.validTo = probe.at + 30 * Day - 1

C18_WitnessExpiredByOne ==
    /\ probe.fn = "calculateStatus"
    /\ probe.out = "expired" /\ probe.validTo = probe.at - 1
    /\ probe.prev = "expiring" /\ probe.validTo = probe.prevAt

Rank(status) == IF status = "valid" THEN 0 ELSE IF status = "expiring" THEN 1 ELSE 2

\* C19: for a fixed validTo and two clock readings t1 <= t2, the status computed
\* at t2 is not earlier in the order valid < expiring < expired than the status
\* computed at t1.
C19_StatusMonotone ==
    probe.fn = "calculateStatus" /\ probe.prev # "" =>
        /\ probe.prevAt <= probe.at
        /\ Rank(probe.prev) <= Rank(probe.out)

C19_Witness ==
    /\ probe.fn = "calculateStatus"
    /\ probe.prev = "valid" /\ probe.out = "expired"
    /\ probe.prevAt < probe.at

\* the target ends with "." followed by the base
EndsWithDotBase(target, base) ==
    \E k \in 0..Len(target) :
        /\ Len(target) - k = Len(base) + 1
        /\ target[k + 1] = "."
        /\ \A i \in 1..Len(base) : target[k + 1 + i] = base[i]

IsWildcard(name) == Len(name) >= 2 /\ name[1] = "*" /\ name[2] = "."

\* C20: compared without regard to case, a wildcard name "*.B" matches a target T
\* only if T equals B or T ends with "." followed by B (so never a T in which B
\* is preceded by another character, nor a T in which B is not a suffix), and a
\* name that is no wildcard matches only the identical target.
C20_WildcardMatching ==
    probe.fn = "matchesHostname" /\ probe.called /\ probe.out =>
        LET name == toLowerCase(probe.certName)
            target == toLowerCase(probe.domainName)
            base == SubSeq(name, 3, Len(name))
        IN  IF IsWildcard(name)
            THEN target = base \/ EndsWithDotBase(target, base)
            ELSE name = target

\* "*.b" is matched by "a.B"
C20_Witness ==
    /\ probe.fn = "matchesHostname" /\ probe.called /\ probe.out
    /\ probe.certName = <<"*", ".", "B">>
    /\ probe.domainName = <<"A", ".", "b">>

\* "*.a" is not matched by "bA" nor by "A.b"
C20_WitnessRejected ==
    /\ probe.fn = "matchesHostname" /\ probe.called /\ ~probe.out
    /\ probe.certName = <<"*", ".", "a">>
    /\ probe.domainName \in {<<"b", "A">>, <<"A", ".", "b">>}

\* the target is the base with two or more labels in front of it: it ends with
\* "." and the base, and what precedes that holds another "."
DeepTarget(target, base) ==
    /\ EndsWithDotBase(target, base)
    /\ \E i \in 1..(Len(target) - Len(base) - 1) : target[i] = "."

\* C21 (as claimed): a target with two or more labels in front of the wildcard's
\* base is accepted only through the multi-level rule (the wildcard of the
\* target's parent domain equals the certificate name), not through the suffix
\* rule.
C21_DeepTargetByMultiLevelRule ==
    probe.fn = "matchesHostname" /\ probe.called =>
        LET name == toLowerCase(probe.certName)
            target == toLowerCase(probe.domainName)
        IN  IsWildcard(name) /\ DeepTarget(target, SubSeq(name, 3, Len(name)))
              /\ probe.out => probe.rule = "multi"

\* C21 (amended): a target with two or more labels in front of the wildcard's
\* base is accepted, and the rule that accepts it is the suffix rule; the
\* multi-level rule never decides a call, since every target it would accept is
\* accepted by the suffix rule before it is reached.
C21_DeepTargetBySuffixRule ==
    probe.fn = "matchesHostname" /\ probe.called =>
        LET name == toLowerCase(probe.certName)
            target == toLowerCase(probe.domainName)
        IN  /\ probe.rule # "multi"
            /\ probe.out = (probe.rule # "none")
            /\ IsWildcard(name) /\ DeepTarget(target, SubSeq(name, 3, Len(name)))
                 => probe.out /\ probe.rule = "suffix"

\* "*.b" against "A.A.b"
C21_Witness ==
    /\ probe.fn = "matchesHostname" /\ probe.called /\ probe.out
    /\ probe.certName = <<"*", ".", "B">>
    /\ probe.domainName = <<"A", ".", "A", ".", "b">>
    /\ probe.rule = "suffix"

(***************************************************************************)
(* Specification: the service starts on a database that holds one active   *)
(* Site without a Certificate; manual uploads with every kind of key, name  *)
(* and SAN, updateCertificate and the scheduler.                            *)
(***************************************************************************)
\* the row createDomain leaves behind for a.test
CreatedSite ==
    [NewSite([NoInput EXCEPT !.name = "a.test", !.upstreams = <<80>>])
       EXCEPT !.status = "active"]

InitUpload ==
    /\ sites = [i \in SiteIds |-> CreatedSite]
    /\ certs = [i \in SiteIds |-> NoCert]
    /\ artifacts = [n \in Names |->
                      IF n = "a.test"
                      THEN Render([site |-> CreatedSite, cert |-> NoCert])
                      ELSE NoArtifact]
    /\ enabled = {"a.test"}
    /\ nextId = MaxSites + 1
    /\ now = 0
    /\ loggerUp = TRUE
    /\ probe = NoProbe
    /\ scheduler = NoScheduler
    /\ call = [p \in Procs |-> Idle]
    /\ activated = SiteIds
    /\ ncalls = 0

StepUpload(p) ==
    \/ StartUpload(p, UploadInputs) \/ UploadCheck(p) \/ UploadStore(p)
    \/ UploadExpiry(p) \/ UploadLog(p)
    \/ StartUpdateCert(p, LogCertUpdates) \/ UpdateCertParse(p)
    \/ UpdateCertStore(p) \/ UpdateCertLog(p)
    \/ StartSweep(p) \/ AutoRenewAcme(p) \/ AutoRenewStore(p)
    \/ AutoRenewExpiry(p) \/ AutoRenewFatal(p)

NextUpload == StepUpload(1)

SpecUpload == InitUpload /\ [][NextUpload]_vars

\* what the caller of an upload sees: the three rejections of the claim
UploadRejections == {"ParseError", "Expired", "DomainMismatch"}

\* the certificate of the upload does not pass: it does not parse, it expired
\* before the call, or neither its common name nor a SAN matches the Site
FailsValidation(c) ==
    \/ ~c.input.parses
    \/ c.at + c.input.days * Day < c.at
    \/ ~domainMatches(c.input, c.pre.sites[c.id].name)

\* C22: an upload whose certificate does not parse, is expired (validTo < now)
\* or matches the Site's name by neither common name nor SAN is rejected, and a
\* rejected upload leaves the Certificates and the Site (sslEnabled, sslExpiry)
\* as they were; an upload that returns has created the one Certificate of its
\* Site, with the validity of the upload, and has not changed sslEnabled.
C22_UploadValidation ==
    \A p \in Procs :
        Finished(p, "upload") =>
            LET c == call[p]
            IN  /\ c.pre.sites[c.id].present /\ FailsValidation(c) => c.err # ""
                /\ c.err \in UploadRejections =>
                     /\ FailsValidation(c)
                     /\ certs = c.pre.certs
                     /\ sites = c.pre.sites
                /\ c.err = "" =>
                     /\ ~c.pre.certs[c.id].present /\ certs[c.id].present
                     /\ certs[c.id].validTo = c.at + c.input.days * Day
                     /\ \A i \in SiteIds \ {c.id} : certs[i] = c.pre.certs[i]
                     /\ sites[c.id].sslEnabled = c.pre.sites[c.id].sslEnabled
                     /\ ~sites[c.id].sslEnabled

\* an expired certificate with the right name is rejected
C22_Witness ==
    /\ Finished(1, "upload") /\ call[1].err = "Expired"
    /\ call[1].input.days < 0
    /\ domainMatches(call[1].input, "a.test")
    /\ ~certs[1].present

\* a certificate for b.test with the SAN a.test is stored
C22_WitnessBySan ==
    /\ Finished(1, "upload") /\ call[1].err = ""
    /\ call[1].input.commonName = HostChars("b.test")
    /\ call[1].input.sans = <<HostChars("a.test")>>
    /\ certs[1].present /\ ~sites[1].sslEnabled

\* neither the common name nor the SAN matches
C22_WitnessMismatch ==
    /\ Finished(1, "upload") /\ call[1].err = "DomainMismatch"
    /\ call[1].input.commonName = HostChars("b.test")
    /\ call[1].input.sans = <<>>
    /\ ~certs[1].present

\* both keys are RSA keys
Comparable(dto) == dto.certKey.type = "rsa" /\ dto.privateKey.type = "rsa"

\* the upload got as far as the key-pair check: the Site exists, it has no
\* Certificate yet and the certificate parses
ReachedKeyCheck(c) ==
    /\ c.pre.sites[c.id].present
    /\ ~c.pre.certs[c.id].present
    /\ c.input.parses

\* C23: an upload that reaches the key-pair check fails with KeyMismatch if and
\* only if both keys are RSA keys and their moduli differ; with a key of another
\* type or a key that cannot be read the check defers and the upload goes on to
\* the later checks; no upload fails with KeyMismatch otherwise.
C23_KeyMismatchIffComparable ==
    \A p \in Procs :
        Finished(p, "upload") =>
            LET c == call[p]
            IN  c.err = "KeyMismatch" <=>
                    /\ ReachedKeyCheck(c)
                    /\ Comparable(c.input)
                    /\ c.input.certKey.n # c.input.privateKey.n

\* two different RSA keys
C23_Witness ==
    /\ Finished(1, "upload") /\ call[1].err = "KeyMismatch"
    /\ call[1].input.certKey = RsaKey(1) /\ call[1].input.privateKey = RsaKey(2)

\* a key that cannot be read, and an RSA key with an EC certificate: stored
C23_WitnessDeferred ==
    /\ Finished(1, "upload") /\ call[1].err = ""
    /\ \/ call[1].input.privateKey = GarbageKey
       \/ call[1].input.certKey = EcKey /\ call[1].input.privateKey = RsaKey(2)
    /\ certs[1].present

\* C24: in a database whose Certificates all come from manual uploads the
\* scheduler never starts a renewal: no sweep finds a Certificate due and no
\* sweep calls the CA.
C24_UploadedNeverAutoRenewed ==
    \A p \in Procs :
        call[p].op = "sweep" =>
            /\ call[p].due = {}
            /\ \A i \in 1..Len(call[p].trace) : call[p].trace[i] \in {"findAll"}

(***************************************************************************)
(* Specification: the scheduler on a database that holds one Site with its  *)
(* Certificate, with a clock of half days.                                  *)
(***************************************************************************)
\* validTo of the stored Certificate: 10, 30, 30 and a half, 90 days from the
\* start, in half days
SweepHalfDays == {20, 60, 61, 180}

\* the rows upload, issue and updateCertificate leave behind
SweepRows ==
    {[present |-> TRUE, validTo |-> h * (Day \div 2), notAfter |-> h * (Day \div 2),
      autoRenew |-> a, status |-> StatusAt(h * (Day \div 2), 0), issuer |-> i] :
        h \in SweepHalfDays, a \in BOOLEAN, i \in {"Let's Encrypt", MANUAL_ISSUER}}

MaxSweepCerts == 2

SweepIds == 1..MaxSweepCerts

SweepName(i) == IF i = 1 THEN "a.test" ELSE "b.test"

InitSweep ==
    /\ certs \in [SweepIds -> SweepRows]
    /\ \E ssl \in BOOLEAN :
         sites = [i \in SweepIds |->
                    [CreatedSite EXCEPT !.name = SweepName(i),
                                        !.sslEnabled = ssl,
                                        !.sslExpiry = Some(certs[i].validTo)]]
    /\ artifacts = [n \in Names |->
                      LET i == CHOOSE k \in SweepIds : SweepName(k) = n
                      IN  Render([site |-> sites[i], cert |-> certs[i]])]
    /\ enabled = Names
    /\ nextId = MaxSweepCerts + 1
    /\ now = 0
    /\ loggerUp = TRUE
    /\ probe = NoProbe
    /\ scheduler = NoScheduler
    /\ call = [p \in Procs |-> Idle]
    /\ activated = SweepIds
    /\ ncalls = 0

StepSweep(p) ==
    \/ StartSweep(p) \/ AutoRenewAcme(p) \/ AutoRenewStore(p)
    \/ AutoRenewExpiry(p) \/ AutoRenewFatal(p)

NextSweep == StepSweep(1) \/ HalfDay

SpecSweep == InitSweep /\ [][NextSweep]_vars

\* the certificates a sweep that starts at time t on the rows certs0 renews:
\* lines 491-504
DueSet(certs0, t) ==
    {i \in DOMAIN certs0 :
        /\ certs0[i].present
        /\ certs0[i].autoRenew
        /\ certs0[i].issuer \in AUTO_RENEWABLE_ISSUERS
        /\ certs0[i].validTo <= t + 30 * Day}

RenewEvents == {"renew:ok", "renew:rate", "renew:notdue", "renew:fatal"}

\* the calls of the CA a sweep made so far
CaCalls(c) == Cardinality({i \in 1..Len(c.trace) : c.trace[i] \in RenewEvents})

\* the renewals of the sweep that are over, and the one that is under way
RenewalsBegun(c) ==
    Cardinality(DueSet(c.pre.certs, c.at) \ c.due)
      + (IF c.pc \in {"s_store", "s_expiry", "s_fatal"} THEN 1 ELSE 0)

\* C25: a sweep that has read the Certificates starts a renewal for exactly the Certificates with autoRenew, an
\* allow-listed issuer and at most 30 days left (validTo <= now + 30 days): it
\* calls the CA once for each of them and for no other, and the Certificate and
\* the Site of a skipped one stay as they were.
C25_SweepSelection ==
    \A p \in Procs :
        call[p].op = "sweep" /\ Has(call[p].trace, "findAll") =>
            LET c == call[p]
                due == DueSet(c.pre.certs, c.at)
            IN  /\ c.due \subseteq due
                /\ CaCalls(c) = RenewalsBegun(c)
                /\ \A i \in DOMAIN certs \ due :
                     certs[i] = c.pre.certs[i] /\ sites[i] = c.pre.sites[i]

\* exactly 30 days left: renewed
C25_Witness ==
    /\ call[1].op = "sweep" /\ CaCalls(call[1]) = 1
    /\ call[1].pre.certs[1].validTo = call[1].at + 30 * Day

\* 30 days and a half left: skipped
C25_WitnessSkipped ==
    /\ Finished(1, "sweep") /\ CaCalls(call[1]) = 0
    /\ call[1].pre.certs[1].present /\ call[1].pre.certs[1].autoRenew
    /\ call[1].pre.certs[1].issuer \in AUTO_RENEWABLE_ISSUERS
    /\ call[1].pre.certs[1].validTo = call[1].at + 30 * Day + Day \div 2
    /\ certs = call[1].pre.certs

\* autoRenew off, or an issuer outside the allow-list, 10 days before expiry
C25_WitnessNotRenewable ==
    /\ Finished(1, "sweep") /\ CaCalls(call[1]) = 0
    /\ call[1].pre.certs[1].present
    /\ call[1].pre.certs[1].validTo = call[1].at + 10 * Day

\* C26: the promise of a sweep is resolved while the renewals it started are
\* still pending, and it never rejects: not when findAll throws, not when a
\* renewal fails.  A failed renewal leaves the other due Certificates pending,
\* and when all renewals are over the CA was called once for every Certificate
\* that was due.
C26_FireAndForget ==
    \A p \in Procs :
        call[p].op = "sweep" =>
            LET c == call[p]
                due == DueSet(c.pre.certs, c.at)
            IN  /\ c.flag /\ c.err = ""
                /\ c.pc # "done" => c.due # {} /\ c.due \subseteq due
                /\ c.pc = "done" =>
                     CaCalls(c) = IF Has(c.trace, "findAll") THEN Cardinality(due) ELSE 0

\* one renewal failed, then the other Certificate was renewed
C26_Witness ==
    /\ Finished(1, "sweep") /\ call[1].err = ""
    /\ \E i, j \in 1..Len(call[1].trace) :
         i < j /\ call[1].trace[i] = "renew:fatal" /\ call[1].trace[j] = "renew:ok"
    /\ \E a, b \in DOMAIN certs :
         certs[a].status = "expiring" /\ certs[b].validTo = call[1].at + 90 * Day

\* the sweep is resolved, its two renewals are pending
C26_WitnessPending ==
    /\ call[1].op = "sweep" /\ call[1].flag /\ call[1].pc = "s_acme"
    /\ Cardinality(call[1].due) = 2 /\ CaCalls(call[1]) = 0

\* findAll throws
C26_WitnessReadFails ==
    /\ Finished(1, "sweep") /\ call[1].err = "" /\ call[1].trace = <<"findAll:fail">>
    /\ DueSet(certs, now) # {}

\* the step of process p that ends a renewal of the scheduler with success
RenewalSucceeds(p) == call[p].pc = "s_expiry" /\ call'[p].pc # "s_expiry"

\* C27: when a renewal of the scheduler ends with success the Certificate has the
\* validity and the issuer of the certificate the CA returned and the status
\* valid, its Site's sslExpiry is the new validTo, and nothing else changed: the
\* row is still the row of that Site, autoRenew is as before, the Site is
\* otherwise as before (sslEnabled too), the other Certificates and Sites are
\* untouched.
C27_SchedulerRenewal ==
    [][\A p \in Procs :
         RenewalSucceeds(p) =>
             LET c == call[p]
                 old == c.pre.certs[c.id]
             IN  /\ certs'[c.id] = [old EXCEPT !.validTo = c.cert.validTo,
                                               !.notAfter = c.cert.notAfter,
                                               !.issuer = c.cert.issuer,
                                               !.status = "valid"]
                 /\ certs'[c.id].validTo = c.at + 90 * Day
                 /\ certs'[c.id].autoRenew = old.autoRenew
                 /\ sites'[c.id] = [c.pre.sites[c.id]
                                      EXCEPT !.sslExpiry = Some(c.cert.validTo)]
                 /\ sites'[c.id].sslEnabled = c.pre.sites[c.id].sslEnabled
                 /\ \A i \in DOMAIN certs \ {c.id} :
                      certs'[i] = certs[i] /\ sites'[i] = sites[i]]_vars

\* a Certificate stored as expiring was renewed: valid, 90 days, sslExpiry follows
C27_Witness ==
    /\ call[1].op = "sweep" /\ Has(call[1].trace, "updateExpiry")
    /\ \E i \in DOMAIN certs :
         /\ call[1].pre.certs[i].status = "expiring"
         /\ certs[i].status = "valid"
         /\ certs[i].validTo = call[1].at + 90 * Day
         /\ certs[i].validTo # call[1].pre.certs[i].validTo
         /\ sites[i].sslExpiry = Some(certs[i].validTo)
         /\ sites[i].sslEnabled = call[1].pre.sites[i].sslEnabled

\* the CA answered 'Rate limited' or 'not yet due' to every call of the sweep
OnlyDeferred(c) ==
    /\ \A i \in 1..Len(c.trace) : c.trace[i] \in {"findAll", "renew:rate", "renew:notdue"}
    /\ CaCalls(c) > 0

\* process p starts a sweep that reads the Certificates
SweepStarts(p) ==
    /\ call[p].pc = "done" /\ call'[p] # call[p]
    /\ call'[p].op = "sweep" /\ Has(call'[p].trace, "findAll")

\* the step of process p in which the CA answers 'Rate limited' or 'not yet due'
RenewalDeferred(p) ==
    /\ call[p].pc = "s_acme" /\ call'[p] # call[p]
    /\ call'[p].trace[Len(call'[p].trace)] \in {"renew:rate", "renew:notdue"}

\* C28: an answer 'Rate limited' or 'not yet due' of the CA changes no
\* Certificate and no Site and is not a failure of the renewal (nothing is
\* thrown, no status is written); at the next sweep every Certificate the
\* deferred sweep selected is selected again.
C28_DeferredRenewal ==
    [][\A p \in Procs :
         /\ RenewalDeferred(p) =>
              /\ certs' = certs /\ sites' = sites
              /\ call'[p].err = "" /\ call'[p].pc # "s_fatal"
         /\ call[p].op = "sweep" /\ OnlyDeferred(call[p]) /\ SweepStarts(p) =>
              /\ certs = call[p].pre.certs /\ sites = call[p].pre.sites
              /\ DueSet(call[p].pre.certs, call[p].at) # {}
              /\ DueSet(call[p].pre.certs, call[p].at) \subseteq call'[p].due]_vars

\* both answers in one sweep, nothing changed, both still due
C28_Witness ==
    /\ Finished(1, "sweep") /\ OnlyDeferred(call[1])
    /\ Has(call[1].trace, "renew:rate") /\ Has(call[1].trace, "renew:notdue")
    /\ certs = call[1].pre.certs /\ sites = call[1].pre.sites
    /\ Cardinality(DueSet(certs, now)) = 2

\* a later sweep has selected the Certificates again
C28_WitnessNextSweep ==
    /\ call[1].op = "sweep" /\ call[1].pc = "s_acme" /\ ncalls >= 2
    /\ CaCalls(call[1]) = 0 /\ Cardinality(call[1].due) = 2
    /\ \A i \in DOMAIN certs : certs[i].issuer = "Let's Encrypt" /\ certs[i].status = "valid"

\* the step of process p that ends a renewal of the scheduler with a failure
RenewalFails(p) == call[p].pc = "s_fatal" /\ call'[p].pc # "s_fatal"

\* C29: a failed renewal writes the status expiring and nothing else (validity,
\* issuer, autoRenew and the Site stay); no other status than valid, expiring
\* and expired is ever stored; at every later sweep a Certificate whose renewal
\* failed is selected again, without any delay.
C29_FatalRetried ==
    /\ [](\A i \in DOMAIN certs :
            certs[i].present => certs[i].status \in {"valid", "expiring", "expired"})
    /\ [][\A p \in Procs :
            /\ RenewalFails(p) =>
                 /\ certs' = [certs EXCEPT ![call[p].id].status = "expiring"]
                 /\ sites' = sites
            /\ call[p].op = "sweep" /\ SweepStarts(p) =>
                 \A i \in DueSet(call[p].pre.certs, call[p].at) :
                     certs[i].validTo = call[p].pre.certs[i].validTo
                        => i \in call'[p].due]_vars

\* a failed renewal of a Certificate that was stored as valid
C29_Witness ==
    /\ call[1].op = "sweep" /\ Has(call[1].trace, "fatal")
    /\ \E i \in DOMAIN certs :
         /\ call[1].pre.certs[i].status = "valid"
         /\ certs[i] = [call[1].pre.certs[i] EXCEPT !.status = "expiring"]

\* the next sweep selects the Certificate that a failure marked as expiring
C29_WitnessRetried ==
    /\ call[1].op = "sweep" /\ call[1].pc = "s_acme" /\ ncalls >= 2
    /\ \E i \in call[1].due :
         /\ certs[i].status = "expiring"
         /\ certs[i].validTo = 30 * Day

\* C30: a manual renewal returns the updated Certificate only when the CA
\* returned new material; when the call of the CA failed the renewal fails and
\* the stored Certificate (material, validity, status) is as it was before.
C30_RenewFailsWithoutMaterial ==
    \A p \in Procs :
        Finished(p, "renew") /\ Has(call[p].trace, "renew:fail") =>
            /\ call[p].err # ""
            /\ certs[call[p].id] = call[p].pre.certs[call[p].id]

(***************************************************************************)
(* Specification: manual renewals on a database that holds Sites with their *)
(* Certificates, with a clock of half days.                                 *)
(***************************************************************************)
StepRenew(p) ==
    \/ StartRenew(p) \/ RenewAcme(p) \/ RenewStore(p) \/ RenewExpiry(p)
    \/ RenewLog(p)

NextRenew == StepRenew(1) \/ HalfDay

SpecRenew == InitSweep /\ [][NextRenew]_vars

\* what the caller of a refused renewal sees
RenewRefusals == {"NotRenewable", "NotEligible"}

\* the two conditions of lines 607 and 620 on the row the call found
RenewalEligible(cert, t) ==
    /\ cert.issuer \in AUTO_RENEWABLE_ISSUERS
    /\ DaysUntilExpiry(cert.validTo, t) <= 30

C31_WitnessIssuer ==
    /\ Finished(1, "renew") /\ call[1].err = "NotRenewable"
    /\ call[1].pre.certs[call[1].id].validTo <= call[1].at + 10 * Day
    /\ certs = call[1].pre.certs

\* 30 days left: the CA is called
C31_WitnessProceeds ==
    /\ call[1].op = "renew" /\ Has(call[1].trace, "renew:ok")
    /\ call[1].pre.certs[call[1].id].validTo = call[1].at + 30 * Day

\* C36: the test of the manual renewal and the test of the sweep agree: a manual
\* renewal of a Certificate with an allow-listed issuer gets past the check of
\* the days left if and only if validTo <= now + 30 days.
C36_SameSelection ==
    \A p \in Procs :
        call[p].op = "renew" =>
            LET c == call[p]
                found == c.pre.certs[c.id]
            IN  found.present /\ found.issuer \in AUTO_RENEWABLE_ISSUERS =>
                    (c.err # "NotEligible"
                       <=> found.validTo <= c.at + renewThresholdDays * Day)

(***************************************************************************)
(* Specification: start and stop of the renewal scheduler and its timer,   *)
(* over an empty repository.                                               *)
(***************************************************************************)
StepTimer(p) == SchedulerStart(p) \/ TimerFires(p) \/ StartSweep(p)

NextTimer == (\E p \in Procs : StepTimer(p)) \/ SchedulerStop

SpecTimer == Init /\ [][NextTimer]_vars

\* getStatus().isRunning, lines 661-665
isRunning == scheduler.intervalId # 0

\* C32: the timer calls sweeps only between a start and the return of the next
\* stop: when the scheduler is not running (before the first start, after a
\* stop has returned) no interval is live, so no callback can run a sweep.
C32_TimerStopsWithStop == ~isRunning => scheduler.timers = {}

(***************************************************************************)
(* Specification: sweeps of the timer and of triggerCheck that overlap, on  *)
(* a database whose Certificates are all due for a renewal.                 *)
(***************************************************************************)
InitOverlap ==
    /\ InitSweep
    /\ \A i \in SweepIds :
         /\ certs[i].autoRenew /\ certs[i].issuer = "Let's Encrypt"
         /\ certs[i].validTo = 10 * Day
         /\ sites[i].sslEnabled

StepOverlap(p) == StepSweep(p) \/ SchedulerStart(p) \/ TimerFires(p)

NextOverlap == \E p \in Procs : StepOverlap(p)

SpecOverlap == InitOverlap /\ [][NextOverlap]_vars

\* the renewals of Certificate i that sweeps have started and that are not over
InFlight(i) ==
    {p \in Procs : call[p].op = "sweep" /\ call[p].pc # "done" /\ i \in call[p].due}

\* C40: at any time at most one renewal of the scheduler is in flight for a
\* Certificate.
C40_OneRenewalInFlight == \A i \in DOMAIN certs : Cardinality(InFlight(i)) <= 1

(***************************************************************************)
(* One certificate per domain.                                             *)
(***************************************************************************)
\* process p passes from the existing-certificate check to the CA and beyond
CallsCa(p) ==
    /\ call[p].pc = "i_acme"
    /\ call'[p].pc # "i_acme"

\* C33: the CA is never called on behalf of a Site that owns a Certificate at
\* that moment, whatever other issue calls are interleaved with this one
C33_NoCaCallForCertifiedSite ==
    [][\A p \in Procs : CallsCa(p) => ~certs[call[p].id].present]_vars

(***************************************************************************)
(* Specification: two updateDomain calls on one Site, interleaved at their *)
(* awaits.                                                                 *)
(***************************************************************************)
\* the updates of this specification: the ModSecurity switch and the upstreams
RaceUpdates ==
    [name : {None}, status : {None},
     modsecEnabled : {None, Some(TRUE)},
     upstreams : {None, Some(<<8080>>), Some(<<>>)},
     loadBalancer : {None}, sslEnabled : {None}, sslExpiry : {None}]

StepRace(p) ==
    \/ StartUpdate(p) \/ UpdatePersist(p, RaceUpdates) \/ UpdateRead(p)
    \/ UpdateGenerate(p) \/ UpdateReload(p) \/ UpdateUndo(p) \/ UpdateCatch(p)
    \/ UpdateLog(p)

NextRace == \E p \in Procs : StepRace(p)

SpecRace == InitUpload /\ [][NextRace]_vars

\* the last restore of an updateDomain call that fails with 'Nginx reload failed'
RestoresAfterReload(p) ==
    /\ call[p].op = "update"
    /\ call[p].pc = "u_catch"
    /\ call[p].err = "ReloadFailed"
    /\ call'[p].pc = "done"

\* C34: the restore of an UpdateSite call that fails with ReloadFailed writes the
\* row this call read when it started, whatever another UpdateSite call on the
\* same Site has committed since: the calls are not mutually excluded
C34_RestoreOverwrites ==
    [][\A p \in Procs : RestoresAfterReload(p) =>
          sites'[call[p].id] = call[p].dom.site]_vars

\* two finished calls on one Site that started from the same row: p failed with
\* ReloadFailed, q committed a change and reported success, and the row is back to
\* what both had read, without the change q reported
C34_Witness ==
    \E p, q \in Procs :
       /\ p # q
       /\ Finished(p, "update") /\ call[p].err = "ReloadFailed"
       /\ Finished(q, "update") /\ call[q].err = "" /\ call[q].audit = <<TRUE>>
       /\ call[q].id = call[p].id
       /\ Has(call[q].trace, "reload:ok")
       /\ call[q].dom.site = call[p].dom.site
       /\ call[q].ret.site # call[q].dom.site
       /\ sites[call[p].id] = call[p].dom.site
       /\ sites[call[p].id] # call[q].ret.site

(***************************************************************************)
(* The order of the steps inside one createDomain, updateDomain or         *)
(* toggleSSL call.                                                         *)
(***************************************************************************)
ReloadEvents == {"reload:ok", "reload:fail"}

PersistEvents == {"create", "update", "updateSSL"}

\* the audit entry that the log event at position i of the trace wrote
EntryOf(c, i) == c.audit[Cardinality({j \in 1..i : c.trace[j] = "log"})]

\* the last reload before position i of the trace reported success
ReloadedBefore(t, i) ==
    LET R == {j \in 1..(i - 1) : t[j] \in ReloadEvents}
    IN  /\ R # {}
        /\ t[CHOOSE j \in R : \A k \in R : k <= j] = "reload:ok"

\* every reload of the call comes after a generateConfig that comes after a write
\* of the row
C35_ReloadAfterGenerate ==
    \A p \in Procs :
        LET t == call[p].trace
        IN  call[p].op \in {"create", "update", "toggle"} =>
               \A j \in 1..Len(t) : t[j] \in ReloadEvents =>
                  \E g \in 1..(j - 1), m \in 1..(j - 1) :
                     m < g /\ t[g] = "generate" /\ t[m] \in PersistEvents

\* C35: within one CreateSite, UpdateSite or ToggleSSL call a success audit entry
\* is written only after the reload before it reported success
C35_SuccessEntryAfterReloadSuccess ==
    \A p \in Procs :
        LET c == call[p]
        IN  c.op \in {"create", "update", "toggle"} =>
               \A i \in 1..Len(c.trace) :
                  c.trace[i] = "log" /\ EntryOf(c, i) => ReloadedBefore(c.trace, i)

(***************************************************************************)
(* Validation of the certificate material that is stored.                  *)
(***************************************************************************)
\* a step of an upload or updateCertificate call that stores certificate material
\* for Site i: the row is new or its validity changes
StoresMaterial(p, i) ==
    /\ call[p].op \in {"upload", "updateCert"}
    /\ call[p].id = i
    /\ certs'[i].present
    /\ ~certs[i].present \/ certs'[i].validTo # certs[i].validTo

\* C37: the certificate material that an upload or an updateCertificate call stores
\* for a Site is not expired at the moment it is stored
C37_StoredNotExpired ==
    [][\A p \in Procs, i \in SiteIds :
          StoresMaterial(p, i) => certs'[i].validTo >= now]_vars

(***************************************************************************)
(* updateDomain when generateConfig rejects the updated Site.              *)
(***************************************************************************)
\* the call ended in the catch block entered from generateConfig (line 247)
GeneratorRejected(c) ==
    /\ c.op = "update" /\ c.pc = "done"
    /\ c.err = "InvalidConfig"
    /\ Reloads(c.trace) = 0

\* C38: when generateConfig rejects the updated Site, updateDomain never calls the
\* reload, the Site row is again the row before the call, the artifact on disk is
\* the rendering of that row, and the call fails
C38_RejectionRestores ==
    \A p \in Procs :
        GeneratorRejected(call[p]) =>
            LET c == call[p]
            IN  /\ sites[c.id] = c.pre.sites[c.id]
                /\ artifacts[c.pre.sites[c.id].name] = Render(PreDomain(c))

(***************************************************************************)
(* The expiry date kept on the Site row.                                   *)
(***************************************************************************)
CertificateOps == {"issue", "upload", "updateCert", "renew", "sweep", "deleteCert", "getAll"}

\* the call of process p is a certificate operation that ran to its end and
\* returned
Completed(p) ==
    /\ call[p].op \in CertificateOps
    /\ call[p].pc = "done"
    /\ call[p].err = ""

\* sslExpiry of Site i is the validTo of its Certificate, null without one
ExpiryInSync(i) ==
    sites[i].sslExpiry = IF certs[i].present THEN Some(certs[i].validTo) ELSE NoDate

\* C39: after every completed certificate operation the sslExpiry of every Site is
\* the stored validTo of its Certificate, and null when the Site has none
C39_ExpiryInSync ==
    \A p \in Procs :
        Completed(p) => \A i \in SiteIds : sites[i].present => ExpiryInSync(i)

====
